---- MODULE Spec2Model ----
(***************************************************************************)
(* A model of the PIM matrix compiler back end:                            *)
(*   - PIMBackend (src/src/compiler/PIMBackend.cpp): the lowering of one   *)
(*     matrix multiply into a stream of PIMInstruction values, one action  *)
(*     per loop iteration of each phase;                                   *)
(*   - PIMInstruction::toBinary and PIMInstructionFormat::encode/decode*   *)
(*     (src/src/compiler/PIMInstruction.cpp, src/include/PIMInstructionSet *)
(*     .h): the 32-bit packing, computed bit by bit.                       *)
(*   - PIMInstruction::toString (the same file): the text line of an       *)
(*     instruction, a sequence of characters;                              *)
(*   - Logger (src/src/utils/Logger.cpp) and the output loop of main       *)
(*     (src/src/main.cpp), for lowering runs repeated in one process;      *)
(*   - MemoryMapper (src/src/compiler/MemoryMapper.cpp): the address       *)
(*     translation pass over the loads and stores of a module;             *)
(*   - two calls of generatePIMInstructions on two threads, sharing the    *)
(*     Logger singleton;                                                   *)
(*   - main (src/src/main.cpp): the command line, the input and the output *)
(*     file, the stages of the pipeline and the exit status.               *)
(* Unsigned field values are naturals; the dimensions of the model keep    *)
(* every product far below 2^32, so no unsigned wrap-around occurs.        *)
(***************************************************************************)
EXTENDS Integers, Sequences, FiniteSets, TLC

VARIABLES
    entry,          \* which entry point runs: "phases" or "generate"
    module,         \* the llvm::Module: its functions, in order
    fn,             \* position of the range-for over module->functions()
    rows, cols, common,   \* the dimension parameters of the running phase
    pc,             \* the position of the lowering
    i, j, k,        \* the loop counters of the running phase
    instructions,   \* std::vector<PIMInstruction> instructions
    history,        \* Logger::history (messages without their timestamps)
    verbose,        \* Logger::verbose
    fileOpen,       \* Logger::fileStream.is_open()
    console,        \* what Logger::log has written to std::cout
    logFile,        \* what Logger::log has written to fileStream
    stage,          \* which lowering run of a sequence of runs is running
    runs,           \* the completed runs: input, stream and text lines
    output,         \* the lines main has written to the output file
    epc,            \* the position of the encoding run
    args,           \* the arguments handed to the constructor and to encode
    inst,           \* the constructed PIMInstruction
    word,           \* the result of inst.toBinary()
    encoded,        \* the result of PIMInstructionFormat::encode(args)
    decoded,        \* the results of decodeOpcode .. decodeImm on word
    other,          \* a second instruction, for comparing encodings
    otherWord,      \* the result of other.toBinary()
    text,           \* the result of inst.toString()
    otherText,      \* the result of other.toString()
    mpc,            \* the position of the address-translation pass
    pass,           \* how many times applyMemoryMapping has been entered
    prog,           \* the functions of the llvm::Module the pass works on
    mfn,            \* position of the range-for over the module's functions
    toProcess,      \* instructionsToProcess of mapArrayAccesses
    calls,          \* the calls of transformMemoryAccess and their results
    once,           \* the module as the first pass returned it
    units,          \* the llvm::Module of each of two concurrent calls
    cstate,         \* where each concurrent call is
    cpos,           \* how many of its operations each call has completed
    cstreams,       \* the local std::vector<PIMInstruction> of each call
    cops,           \* the operations each call performs, in program order
    raced,          \* whether a call's Logger::log overlapped another one
    argv,           \* the command line of main, without the program name
    argi,           \* the index i of main's loop over argv
    options,        \* inputFile, outputFile and the flags main parses
    readable,       \* the files that can be opened for reading
    writable,       \* the files that can be opened for writing
    mainpc,         \* the position of main
    events,         \* the stages main has gone through, in order
    exitStatus      \* the value main returns

lowerVars == <<entry, module, fn, rows, cols, common, pc, i, j, k,
               instructions, history>>
loggerSettings == <<verbose, fileOpen>>
loggerOutput == <<console, logFile>>
runVars == <<stage, runs, output>>
encVars == <<epc, args, inst, word, encoded, decoded, other, otherWord, text,
             otherText>>
mapVars == <<mpc, pass, prog, mfn, toProcess, calls, once>>
concVars == <<units, cstate, cpos, cstreams, cops, raced>>
mainVars == <<argv, argi, options, readable, writable, mainpc, events,
              exitStatus>>
vars == <<lowerVars, loggerSettings, loggerOutput, runVars, encVars, mapVars,
          concVars, mainVars>>

----------------------------------------------------------------------------
(* Bounds of the model.                                                    *)

MaxRows == 3
MaxCols == 5
MaxCommon == 3
MaxFunctions == 2

----------------------------------------------------------------------------
(* enum PIMOpcode (PIMInstructionSet.h).                                   *)

PIM_NOP == 0
PIM_LOAD == 1
PIM_STORE == 2
PIM_MOVE == 3
PIM_ADD == 4
PIM_SUB == 5
PIM_MUL == 6
PIM_DIV == 7
PIM_AND == 8
PIM_OR == 9
PIM_XOR == 10
PIM_NOT == 11
PIM_SHL == 12
PIM_SHR == 13
PIM_JUMP == 14
PIM_JUMPZ == 15
PIM_JUMPNZ == 16
PIM_CONFIG == 17

(* PIMInstruction::PIMInstruction: the five fields, stored as given.       *)
PIMInstruction(opcode, dest, src1, src2, imm) ==
    [opcode |-> opcode, dest |-> dest, src1 |-> src1, src2 |-> src2,
     imm |-> imm]

getOpcode(x) == x.opcode
getDest(x) == x.dest
getSrc1(x) == x.src1
getSrc2(x) == x.src2
getImm(x) == x.imm

----------------------------------------------------------------------------
(* The lowering: PIMBackend.                                               *)

(* A mutation of push_back that inserts at the front.                      *)
PushFront(s, x) == <<x>> \o s

(* std::vector::push_back.                                                 *)
PushBack(s, x) == Append(s, x)

(* Logger::log: the message is appended to the history.                    *)
Log(h, msg) == Append(h, msg)

(* Logger::log, called once for each of msgs: every message goes to the    *)
(* history, to std::cout if verbose, and to the log file if it is open.    *)
RECURSIVE LogAll(_, _)
LogAll(h, msgs) ==
    IF msgs = <<>> THEN h ELSE LogAll(Log(h, Head(msgs)), Tail(msgs))
LoggerLog(msgs) ==
    /\ history' = LogAll(history, msgs)
    /\ console' = IF verbose THEN console \o msgs ELSE console
    /\ logFile' = IF fileOpen THEN logFile \o msgs ELSE logFile

(* The dimensions processMatrixMultiplyFunction fixes.                     *)
FixedRows == 2
FixedCols == 2
FixedCommon == 2

(* A module's functions: a name, and whether it is only declared.          *)
FunctionNames == {"matmul", "main"}
Functions == [name : FunctionNames, isDeclaration : BOOLEAN]
Modules == UNION {[1..n -> Functions] : n \in 0..MaxFunctions}

(* The destination addresses of the load phase.                            *)
LoadADest(r, c) == r * common + c
LoadBDestSwapped(r, c) == rows * common + (r * common + c)
LoadBDest(r, c) == rows * common + (r * cols + c)
(* A mutation of the C destinations that forgets the size of B.           *)
LoadCDestOverlapping(r, c) == rows * common + (r * cols + c)
LoadCDest(r, c) == rows * common + common * cols + (r * cols + c)

(* The addresses of the compute phase.                                     *)
(* A mutation of the address of A[r][c] that strides by cols.             *)
a_addr_col_stride(r, c) == r * cols + c
a_addr(r, c) == r * common + c
b_addr_swapped(r, c) == rows * common + c * cols + r
b_addr(r, c) == rows * common + r * cols + c
c_addr(r, c) == rows * common + common * cols + r * cols + c

(* The address of C[r][c] as the store phase computes it.                  *)
store_c_addr(r, c) == rows * cols + cols * cols + r * cols + c

(* The three CONFIG instructions opening the load phase.                   *)
ConfigInstructions ==
    << PIMInstruction(PIM_CONFIG, 0, rows * common, 0, 0),
       PIMInstruction(PIM_CONFIG, 1, common * cols, 0, 0),
       PIMInstruction(PIM_CONFIG, 2, rows * cols, 0, 0) >>

(* A mutation of the loop body that keeps C[i][j] in register 3.           *)
MultiplyBodyCached(r, c, m) ==
    << PIMInstruction(PIM_MOVE, 0, a_addr(r, m), 0, 0),
       PIMInstruction(PIM_MOVE, 1, b_addr(m, c), 0, 0),
       PIMInstruction(PIM_MUL, 2, 0, 1, 0),
       PIMInstruction(PIM_ADD, 3, 3, 2, 0),
       PIMInstruction(PIM_MOVE, c_addr(r, c), 3, 0, 0) >>

(* The six instructions of one (i, j, k) iteration of the compute phase.   *)
MultiplyBody(r, c, m) ==
    << PIMInstruction(PIM_MOVE, 0, a_addr(r, m), 0, 0),
       PIMInstruction(PIM_MOVE, 1, b_addr(m, c), 0, 0),
       PIMInstruction(PIM_MUL, 2, 0, 1, 0),
       PIMInstruction(PIM_MOVE, 3, c_addr(r, c), 0, 0),
       PIMInstruction(PIM_ADD, 3, 3, 2, 0),
       PIMInstruction(PIM_MOVE, c_addr(r, c), 3, 0, 0) >>

(* Appending a sequence of instructions, one push_back each.               *)
RECURSIVE PushAll(_, _)
PushAll(s, xs) ==
    IF xs = <<>> THEN s ELSE PushAll(PushBack(s, Head(xs)), Tail(xs))

InitPhases ==
    /\ entry = "phases"
    /\ module = <<>>
    /\ fn = 0
    /\ rows \in 1..MaxRows
    /\ cols \in 1..MaxCols
    /\ common \in 1..MaxCommon
    /\ pc = "load"
    /\ i = 0 /\ j = 0 /\ k = 0
    /\ instructions = <<>>
    /\ history = <<>>

InitGenerate ==
    /\ entry = "generate"
    /\ module \in Modules
    /\ fn = 0
    /\ rows = 0 /\ cols = 0 /\ common = 0
    /\ pc = "generate"
    /\ i = 0 /\ j = 0 /\ k = 0
    /\ instructions = <<>>
    /\ history = <<>>

(* A mutation of generatePIMInstructions that appends to a stream kept     *)
(* from the call before.                                                   *)
GenerateEnterAppending ==
    /\ pc = "generate"
    /\ LoggerLog(<< <<"Starting PIM instruction generation">> >>)
    /\ fn' = 1
    /\ pc' = "functions"
    /\ UNCHANGED <<entry, module, rows, cols, common, i, j, k, instructions>>
    /\ UNCHANGED <<loggerSettings, runVars, encVars, mapVars,
                   concVars, mainVars>>

(* generatePIMInstructions, up to the loop over the functions.             *)
GenerateEnter ==
    /\ pc = "generate"
    /\ LoggerLog(<< <<"Starting PIM instruction generation">> >>)
    /\ instructions' = <<>>
    /\ fn' = 1
    /\ pc' = "functions"
    /\ UNCHANGED <<entry, module, rows, cols, common, i, j, k>>
    /\ UNCHANGED <<loggerSettings, runVars, encVars, mapVars,
                   concVars, mainVars>>

(* A mutation of the loop over the functions that lowers declarations too. *)
ProcessDeclaration ==
    /\ pc = "functions"
    /\ fn <= Len(module)
    /\ module[fn].isDeclaration
    /\ rows' = FixedRows
    /\ cols' = FixedCols
    /\ common' = FixedCommon
    /\ LoggerLog(<< <<"Processing function: ", module[fn].name>> >>)
    /\ pc' = "load"
    /\ UNCHANGED <<entry, module, fn, i, j, k, instructions>>
    /\ UNCHANGED <<loggerSettings, runVars, encVars, mapVars,
                   concVars, mainVars>>

(* The loop over the functions: a declaration is skipped.                  *)
SkipDeclaration ==
    /\ pc = "functions"
    /\ fn <= Len(module)
    /\ module[fn].isDeclaration
    /\ fn' = fn + 1
    /\ UNCHANGED <<entry, module, rows, cols, common, pc, i, j, k,
                   instructions, history>>
    /\ UNCHANGED <<loggerSettings, loggerOutput, runVars, encVars, mapVars,
                   concVars, mainVars>>

(* A mutation of the loop over the functions that starts a fresh stream    *)
(* for every defined function.                                             *)
ProcessFunctionFreshStream ==
    /\ pc = "functions"
    /\ fn <= Len(module)
    /\ ~module[fn].isDeclaration
    /\ rows' = FixedRows
    /\ cols' = FixedCols
    /\ common' = FixedCommon
    /\ LoggerLog(<< <<"Processing function: ", module[fn].name>>,
                    <<"Matrix dimensions: ", FixedRows, FixedCommon,
                       FixedCommon, FixedCols>> >>)
    /\ instructions' = <<>>
    /\ pc' = "load"
    /\ UNCHANGED <<entry, module, fn, i, j, k>>
    /\ UNCHANGED <<loggerSettings, runVars, encVars, mapVars,
                   concVars, mainVars>>

(* The loop over the functions: a defined function is processed;           *)
(* processMatrixMultiplyFunction fixes the dimensions and logs them.       *)
ProcessFunction ==
    /\ pc = "functions"
    /\ fn <= Len(module)
    /\ ~module[fn].isDeclaration
    /\ rows' = FixedRows
    /\ cols' = FixedCols
    /\ common' = FixedCommon
    /\ LoggerLog(<< <<"Processing function: ", module[fn].name>>,
                    <<"Matrix dimensions: ", FixedRows, FixedCommon,
                       FixedCommon, FixedCols>> >>)
    /\ pc' = "load"
    /\ UNCHANGED <<entry, module, fn, i, j, k, instructions>>
    /\ UNCHANGED <<loggerSettings, runVars, encVars, mapVars,
                   concVars, mainVars>>

(* The loop over the functions has ended: the stream is returned.          *)
GenerateReturn ==
    /\ pc = "functions"
    /\ fn > Len(module)
    /\ LoggerLog(<< <<"Generated ", Len(instructions),
                    " PIM instructions">> >>)
    /\ pc' = "done"
    /\ UNCHANGED <<entry, module, fn, rows, cols, common, i, j, k,
                   instructions>>
    /\ UNCHANGED <<loggerSettings, runVars, encVars, mapVars,
                   concVars, mainVars>>

(* generateMatrixLoadInstructions: the log line and the three CONFIGs.     *)
LoadConfigure ==
    /\ pc = "load"
    /\ LoggerLog(<< <<"Generating matrix load instructions">> >>)
    /\ instructions' = PushAll(instructions, ConfigInstructions)
    /\ i' = 0 /\ j' = 0 /\ k' = 0
    /\ pc' = "loadA"
    /\ UNCHANGED <<entry, module, fn, rows, cols, common>>
    /\ UNCHANGED <<loggerSettings, runVars, encVars, mapVars,
                   concVars, mainVars>>

(* One iteration of the loops over A (i outer, k inner).                   *)
LoadA ==
    /\ pc = "loadA"
    /\ instructions' = PushBack(instructions,
                           PIMInstruction(PIM_LOAD, LoadADest(i, k), 0, i, k))
    /\ IF k + 1 < common
         THEN k' = k + 1 /\ i' = i /\ pc' = pc
         ELSE IF i + 1 < rows
                THEN k' = 0 /\ i' = i + 1 /\ pc' = pc
                ELSE k' = 0 /\ i' = 0 /\ pc' = "loadB"
    /\ UNCHANGED <<entry, module, fn, rows, cols, common, j, history>>
    /\ UNCHANGED <<loggerSettings, loggerOutput, runVars, encVars, mapVars,
                   concVars, mainVars>>

(* One iteration of the loops over B (k outer, j inner).                   *)
LoadB ==
    /\ pc = "loadB"
    /\ instructions' = PushBack(instructions,
                           PIMInstruction(PIM_LOAD, LoadBDest(k, j), 0, k, j))
    /\ IF j + 1 < cols
         THEN j' = j + 1 /\ k' = k /\ pc' = pc
         ELSE IF k + 1 < common
                THEN j' = 0 /\ k' = k + 1 /\ pc' = pc
                ELSE j' = 0 /\ k' = 0 /\ pc' = "loadC"
    /\ UNCHANGED <<entry, module, fn, rows, cols, common, i, history>>
    /\ UNCHANGED <<loggerSettings, loggerOutput, runVars, encVars, mapVars,
                   concVars, mainVars>>

(* One iteration of the loops over C (i outer, j inner).                   *)
LoadC ==
    /\ pc = "loadC"
    /\ instructions' = PushBack(instructions,
                           PIMInstruction(PIM_LOAD, LoadCDest(i, j), 0, i, j))
    /\ IF j + 1 < cols
         THEN j' = j + 1 /\ i' = i /\ pc' = pc
         ELSE IF i + 1 < rows
                THEN j' = 0 /\ i' = i + 1 /\ pc' = pc
                ELSE j' = 0 /\ i' = 0 /\ pc' = "multiply"
    /\ UNCHANGED <<entry, module, fn, rows, cols, common, k, history>>
    /\ UNCHANGED <<loggerSettings, loggerOutput, runVars, encVars, mapVars,
                   concVars, mainVars>>

(* generateMatrixMultiplyInstructions: the log line.                       *)
MultiplyEnter ==
    /\ pc = "multiply"
    /\ LoggerLog(<< <<"Generating matrix multiply instructions">> >>)
    /\ i' = 0 /\ j' = 0 /\ k' = 0
    /\ pc' = "multiplyLoop"
    /\ UNCHANGED <<entry, module, fn, rows, cols, common, instructions>>
    /\ UNCHANGED <<loggerSettings, runVars, encVars, mapVars,
                   concVars, mainVars>>

(* One iteration of the loops of the compute phase (i, then j, then k).    *)
MultiplyStep ==
    /\ pc = "multiplyLoop"
    /\ instructions' = PushAll(instructions, MultiplyBody(i, j, k))
    /\ IF k + 1 < common
         THEN k' = k + 1 /\ j' = j /\ i' = i /\ pc' = pc
         ELSE IF j + 1 < cols
                THEN k' = 0 /\ j' = j + 1 /\ i' = i /\ pc' = pc
                ELSE IF i + 1 < rows
                       THEN k' = 0 /\ j' = 0 /\ i' = i + 1 /\ pc' = pc
                       ELSE k' = 0 /\ j' = 0 /\ i' = 0 /\ pc' = "store"
    /\ UNCHANGED <<entry, module, fn, rows, cols, common, history>>
    /\ UNCHANGED <<loggerSettings, loggerOutput, runVars, encVars, mapVars,
                   concVars, mainVars>>

(* A mutation of the store phase that fails on entry instead of running.   *)
StoreEnterFails ==
    /\ pc = "store"
    /\ LoggerLog(<< <<"Generating store result instructions">> >>)
    /\ pc' = "failed"
    /\ UNCHANGED <<entry, module, fn, rows, cols, common, i, j, k,
                   instructions>>
    /\ UNCHANGED <<loggerSettings, runVars, encVars, mapVars,
                   concVars, mainVars>>

(* generateStoreResultInstructions: the log line.                          *)
StoreEnter ==
    /\ pc = "store"
    /\ LoggerLog(<< <<"Generating store result instructions">> >>)
    /\ i' = 0 /\ j' = 0
    /\ pc' = "storeLoop"
    /\ UNCHANGED <<entry, module, fn, rows, cols, common, k, instructions>>
    /\ UNCHANGED <<loggerSettings, runVars, encVars, mapVars,
                   concVars, mainVars>>

(* One iteration of the loops of the store phase (i outer, j inner); after *)
(* the last one the phase returns, to the loop over the functions or to    *)
(* the caller of the three phases.                                         *)
StoreStep ==
    /\ pc = "storeLoop"
    /\ instructions' = PushBack(instructions,
                           PIMInstruction(PIM_STORE, 0, store_c_addr(i, j),
                                          i, j))
    /\ IF j + 1 < cols
         THEN j' = j + 1 /\ i' = i /\ pc' = pc /\ fn' = fn
         ELSE IF i + 1 < rows
                THEN j' = 0 /\ i' = i + 1 /\ pc' = pc /\ fn' = fn
                ELSE /\ j' = 0 /\ i' = 0
                     /\ IF entry = "generate"
                          THEN pc' = "functions" /\ fn' = fn + 1
                          ELSE pc' = "done" /\ fn' = fn
    /\ UNCHANGED <<entry, module, rows, cols, common, k, history>>
    /\ UNCHANGED <<loggerSettings, loggerOutput, runVars, encVars, mapVars,
                   concVars, mainVars>>

----------------------------------------------------------------------------
(* The encoding: PIMInstruction::toBinary, PIMInstructionFormat.           *)

(* A uint32_t is the function from bit positions 0..31 to its bits.        *)
BitPositions == 0..31

(* The unsigned value n (below 2^31) as a uint32_t.                        *)
U32(n) == [b \in BitPositions |-> IF b = 31 THEN 0 ELSE (n \div 2^b) % 2]

(* The value of a uint32_t whose bit 31 is clear.                          *)
RECURSIVE BitsValue(_, _)
BitsValue(w, b) ==
    IF b < 0 THEN 0 ELSE w[b] * 2^b + BitsValue(w, b - 1)
ToNat(w) == BitsValue(w, 30)

(* The operators &, |, << and >> on uint32_t.                              *)
BitAnd(x, y) == [b \in BitPositions |-> x[b] * y[b]]
BitOr(x, y) == [b \in BitPositions |-> IF x[b] + y[b] > 0 THEN 1 ELSE 0]
ShiftLeft(x, n) == [b \in BitPositions |-> IF b >= n THEN x[b - n] ELSE 0]
ShiftRight(x, n) == [b \in BitPositions |-> IF b + n <= 31 THEN x[b + n] ELSE 0]

(* A mutation of toBinary that does not mask dest.                         *)
toBinaryUnmaskedDest(x) ==
    LET r0 == U32(0)
        r1 == BitOr(r0, ShiftLeft(BitAnd(U32(x.opcode), U32(63)), 26))
        r2 == BitOr(r1, ShiftLeft(U32(x.dest), 18))
        r3 == BitOr(r2, ShiftLeft(BitAnd(U32(x.src1), U32(255)), 10))
        r4 == BitOr(r3, ShiftLeft(BitAnd(U32(x.src2), U32(255)), 2))
        r5 == BitOr(r4, BitAnd(U32(x.imm), U32(3)))
    IN  r5

(* A mutation of toBinary that places src1 at bit 8.                       *)
toBinaryShiftedSrc1(x) ==
    LET r0 == U32(0)
        r1 == BitOr(r0, ShiftLeft(BitAnd(U32(x.opcode), U32(63)), 26))
        r2 == BitOr(r1, ShiftLeft(BitAnd(U32(x.dest), U32(255)), 18))
        r3 == BitOr(r2, ShiftLeft(BitAnd(U32(x.src1), U32(255)), 8))
        r4 == BitOr(r3, ShiftLeft(BitAnd(U32(x.src2), U32(255)), 2))
        r5 == BitOr(r4, BitAnd(U32(x.imm), U32(3)))
    IN  r5

(* A mutation of toBinary that leaves imm out of the word.                 *)
toBinaryNoImm(x) ==
    LET r0 == U32(0)
        r1 == BitOr(r0, ShiftLeft(BitAnd(U32(x.opcode), U32(63)), 26))
        r2 == BitOr(r1, ShiftLeft(BitAnd(U32(x.dest), U32(255)), 18))
        r3 == BitOr(r2, ShiftLeft(BitAnd(U32(x.src1), U32(255)), 10))
        r4 == BitOr(r3, ShiftLeft(BitAnd(U32(x.src2), U32(255)), 2))
    IN  r4

(* PIMInstruction::toBinary.                                               *)
toBinary(x) ==
    LET r0 == U32(0)
        r1 == BitOr(r0, ShiftLeft(BitAnd(U32(x.opcode), U32(63)), 26))
        r2 == BitOr(r1, ShiftLeft(BitAnd(U32(x.dest), U32(255)), 18))
        r3 == BitOr(r2, ShiftLeft(BitAnd(U32(x.src1), U32(255)), 10))
        r4 == BitOr(r3, ShiftLeft(BitAnd(U32(x.src2), U32(255)), 2))
        r5 == BitOr(r4, BitAnd(U32(x.imm), U32(3)))
    IN  r5

(* struct PIMInstructionFormat: the shifts and the masks.                  *)
OPCODE_SHIFT == 26
OPCODE_MASK == 63
DEST_SHIFT == 18
DEST_MASK == 255
SRC1_SHIFT == 10
SRC1_MASK == 255
SRC2_SHIFT == 2
SRC2_MASK == 255
IMM_SHIFT == 0
IMM_MASK == 3

(* PIMInstructionFormat::encode.                                           *)
encode(opcode, dest, src1, src2, imm) ==
    BitOr(BitOr(BitOr(BitOr(
        ShiftLeft(BitAnd(U32(opcode), U32(OPCODE_MASK)), OPCODE_SHIFT),
        ShiftLeft(BitAnd(U32(dest), U32(DEST_MASK)), DEST_SHIFT)),
        ShiftLeft(BitAnd(U32(src1), U32(SRC1_MASK)), SRC1_SHIFT)),
        ShiftLeft(BitAnd(U32(src2), U32(SRC2_MASK)), SRC2_SHIFT)),
        ShiftLeft(BitAnd(U32(imm), U32(IMM_MASK)), IMM_SHIFT))

(* A mutation of decodeSrc2 that shifts by IMM_SHIFT.                      *)
decodeSrc2Unshifted(w) == ToNat(BitAnd(ShiftRight(w, IMM_SHIFT), U32(SRC2_MASK)))

(* PIMInstructionFormat::decodeOpcode .. decodeImm.                        *)
decodeOpcode(w) == ToNat(BitAnd(ShiftRight(w, OPCODE_SHIFT), U32(OPCODE_MASK)))
decodeDest(w) == ToNat(BitAnd(ShiftRight(w, DEST_SHIFT), U32(DEST_MASK)))
decodeSrc1(w) == ToNat(BitAnd(ShiftRight(w, SRC1_SHIFT), U32(SRC1_MASK)))
decodeSrc2(w) == ToNat(BitAnd(ShiftRight(w, SRC2_SHIFT), U32(SRC2_MASK)))
decodeImm(w) == ToNat(BitAnd(ShiftRight(w, IMM_SHIFT), U32(IMM_MASK)))

(* The characters of the sixteen digits: Digits[d + 1] renders d.          *)
Digits == << "0", "1", "2", "3", "4", "5", "6", "7", "8", "9",
             "a", "b", "c", "d", "e", "f" >>

(* operator<< of a uint32_t in decimal: a text is a sequence of characters. *)
RECURSIVE Decimal(_)
Decimal(n) ==
    IF n < 10 THEN << Digits[n + 1] >>
    ELSE Decimal(n \div 10) \o << Digits[(n % 10) + 1] >>

(* operator<< of a uint32_t under std::hex: the eight nibbles, most        *)
(* significant first, without the leading zeros.                           *)
Nibble(w, d) == w[4 * d] + 2 * w[4 * d + 1] + 4 * w[4 * d + 2] + 8 * w[4 * d + 3]
RECURSIVE DropLeadingZeros(_)
DropLeadingZeros(t) ==
    IF Len(t) > 1 /\ Head(t) = "0" THEN DropLeadingZeros(Tail(t)) ELSE t
Hexadecimal(w) ==
    DropLeadingZeros([p \in 1..8 |-> Digits[Nibble(w, 8 - p) + 1]])

(* std::setw(n) with std::setfill(c): the text is padded on the left.      *)
SetW(n, c, t) ==
    IF Len(t) >= n THEN t ELSE [p \in 1..(n - Len(t)) |-> c] \o t

(* A mutation of the switch of toString that has no default case.          *)
MnemonicNoDefault(opcode) ==
    CASE opcode = PIM_NOP -> << "N", "O", "P" >>
      [] opcode = PIM_LOAD -> << "L", "O", "A", "D" >>
      [] opcode = PIM_STORE -> << "S", "T", "O", "R", "E" >>
      [] opcode = PIM_MOVE -> << "M", "O", "V", "E" >>
      [] opcode = PIM_ADD -> << "A", "D", "D" >>
      [] opcode = PIM_SUB -> << "S", "U", "B" >>
      [] opcode = PIM_MUL -> << "M", "U", "L" >>
      [] opcode = PIM_DIV -> << "D", "I", "V" >>
      [] opcode = PIM_AND -> << "A", "N", "D" >>
      [] opcode = PIM_OR -> << "O", "R" >>
      [] opcode = PIM_XOR -> << "X", "O", "R" >>
      [] opcode = PIM_NOT -> << "N", "O", "T" >>
      [] opcode = PIM_SHL -> << "S", "H", "L" >>
      [] opcode = PIM_SHR -> << "S", "H", "R" >>
      [] opcode = PIM_JUMP -> << "J", "U", "M", "P" >>
      [] opcode = PIM_JUMPZ -> << "J", "U", "M", "P", "Z" >>
      [] opcode = PIM_JUMPNZ -> << "J", "U", "M", "P", "N", "Z" >>
      [] opcode = PIM_CONFIG -> << "C", "O", "N", "F", "I", "G" >>
      [] OTHER -> << >>

(* The switch of toString over the opcode.                                 *)
Mnemonic(opcode) ==
    CASE opcode = PIM_NOP -> << "N", "O", "P" >>
      [] opcode = PIM_LOAD -> << "L", "O", "A", "D" >>
      [] opcode = PIM_STORE -> << "S", "T", "O", "R", "E" >>
      [] opcode = PIM_MOVE -> << "M", "O", "V", "E" >>
      [] opcode = PIM_ADD -> << "A", "D", "D" >>
      [] opcode = PIM_SUB -> << "S", "U", "B" >>
      [] opcode = PIM_MUL -> << "M", "U", "L" >>
      [] opcode = PIM_DIV -> << "D", "I", "V" >>
      [] opcode = PIM_AND -> << "A", "N", "D" >>
      [] opcode = PIM_OR -> << "O", "R" >>
      [] opcode = PIM_XOR -> << "X", "O", "R" >>
      [] opcode = PIM_NOT -> << "N", "O", "T" >>
      [] opcode = PIM_SHL -> << "S", "H", "L" >>
      [] opcode = PIM_SHR -> << "S", "H", "R" >>
      [] opcode = PIM_JUMP -> << "J", "U", "M", "P" >>
      [] opcode = PIM_JUMPZ -> << "J", "U", "M", "P", "Z" >>
      [] opcode = PIM_JUMPNZ -> << "J", "U", "M", "P", "N", "Z" >>
      [] opcode = PIM_CONFIG -> << "C", "O", "N", "F", "I", "G" >>
      [] OTHER -> << "U", "N", "K", "N", "O", "W", "N" >>

(* A mutation of the operand format whose LOAD/STORE bracket depends on    *)
(* imm alone.                                                              *)
OperandsBracketOnImm(x) ==
    IF x.opcode = PIM_NOP THEN << >>
    ELSE IF x.opcode = PIM_CONFIG
      THEN << " " >> \o Decimal(x.dest) \o << ",", " " >> \o Decimal(x.src1)
    ELSE IF x.opcode = PIM_LOAD \/ x.opcode = PIM_STORE
      THEN << " " >> \o Decimal(x.dest) \o << ",", " " >> \o Decimal(x.src1)
           \o (IF x.imm # 0
                 THEN << " ", "[" >> \o Decimal(x.src2) \o << ",", " " >>
                      \o Decimal(x.imm) \o << "]" >>
                 ELSE << >>)
    ELSE IF x.opcode = PIM_NOT \/ x.opcode = PIM_JUMP
      THEN << " " >> \o Decimal(x.dest)
    ELSE IF x.opcode = PIM_JUMPZ \/ x.opcode = PIM_JUMPNZ
      THEN << " " >> \o Decimal(x.dest) \o << ",", " " >> \o Decimal(x.src1)
    ELSE << " " >> \o Decimal(x.dest) \o << ",", " " >> \o Decimal(x.src1)
         \o << ",", " " >> \o Decimal(x.src2)
         \o (IF x.imm # 0 THEN << ",", " " >> \o Decimal(x.imm) ELSE << >>)

(* A mutation of the operand format that writes imm after the three       *)
(* operands even when it is zero.                                          *)
OperandsAlwaysImm(x) ==
    IF x.opcode = PIM_NOP THEN << >>
    ELSE IF x.opcode = PIM_CONFIG
      THEN << " " >> \o Decimal(x.dest) \o << ",", " " >> \o Decimal(x.src1)
    ELSE IF x.opcode = PIM_LOAD \/ x.opcode = PIM_STORE
      THEN << " " >> \o Decimal(x.dest) \o << ",", " " >> \o Decimal(x.src1)
           \o (IF x.src2 # 0 \/ x.imm # 0
                 THEN << " ", "[" >> \o Decimal(x.src2) \o << ",", " " >>
                      \o Decimal(x.imm) \o << "]" >>
                 ELSE << >>)
    ELSE IF x.opcode = PIM_NOT \/ x.opcode = PIM_JUMP
      THEN << " " >> \o Decimal(x.dest)
    ELSE IF x.opcode = PIM_JUMPZ \/ x.opcode = PIM_JUMPNZ
      THEN << " " >> \o Decimal(x.dest) \o << ",", " " >> \o Decimal(x.src1)
    ELSE << " " >> \o Decimal(x.dest) \o << ",", " " >> \o Decimal(x.src1)
         \o << ",", " " >> \o Decimal(x.src2)
         \o << ",", " " >> \o Decimal(x.imm)

(* A mutation of the operand format that treats NOT and JUMP as            *)
(* two-operand instructions.                                               *)
OperandsNotWithSrc1(x) ==
    IF x.opcode = PIM_NOP THEN << >>
    ELSE IF x.opcode = PIM_CONFIG
      THEN << " " >> \o Decimal(x.dest) \o << ",", " " >> \o Decimal(x.src1)
    ELSE IF x.opcode = PIM_LOAD \/ x.opcode = PIM_STORE
      THEN << " " >> \o Decimal(x.dest) \o << ",", " " >> \o Decimal(x.src1)
           \o (IF x.src2 # 0 \/ x.imm # 0
                 THEN << " ", "[" >> \o Decimal(x.src2) \o << ",", " " >>
                      \o Decimal(x.imm) \o << "]" >>
                 ELSE << >>)
    ELSE IF x.opcode \in {PIM_NOT, PIM_JUMP, PIM_JUMPZ, PIM_JUMPNZ}
      THEN << " " >> \o Decimal(x.dest) \o << ",", " " >> \o Decimal(x.src1)
    ELSE << " " >> \o Decimal(x.dest) \o << ",", " " >> \o Decimal(x.src1)
         \o << ",", " " >> \o Decimal(x.src2)
         \o (IF x.imm # 0 THEN << ",", " " >> \o Decimal(x.imm) ELSE << >>)

(* The operands toString writes after the mnemonic.                        *)
Operands(x) ==
    IF x.opcode = PIM_NOP THEN << >>
    ELSE IF x.opcode = PIM_CONFIG
      THEN << " " >> \o Decimal(x.dest) \o << ",", " " >> \o Decimal(x.src1)
    ELSE IF x.opcode = PIM_LOAD \/ x.opcode = PIM_STORE
      THEN << " " >> \o Decimal(x.dest) \o << ",", " " >> \o Decimal(x.src1)
           \o (IF x.src2 # 0 \/ x.imm # 0
                 THEN << " ", "[" >> \o Decimal(x.src2) \o << ",", " " >>
                      \o Decimal(x.imm) \o << "]" >>
                 ELSE << >>)
    ELSE IF x.opcode = PIM_NOT \/ x.opcode = PIM_JUMP
      THEN << " " >> \o Decimal(x.dest)
    ELSE IF x.opcode = PIM_JUMPZ \/ x.opcode = PIM_JUMPNZ
      THEN << " " >> \o Decimal(x.dest) \o << ",", " " >> \o Decimal(x.src1)
    ELSE << " " >> \o Decimal(x.dest) \o << ",", " " >> \o Decimal(x.src1)
         \o << ",", " " >> \o Decimal(x.src2)
         \o (IF x.imm # 0 THEN << ",", " " >> \o Decimal(x.imm) ELSE << >>)

(* A mutation of toString that leaves out std::setw and std::setfill.      *)
toStringUnpadded(x) ==
    Mnemonic(x.opcode) \o Operands(x) \o << " ", ";", " ", "0", "x" >>
        \o Hexadecimal(toBinary(x))

(* PIMInstruction::toString.                                               *)
toString(x) ==
    Mnemonic(x.opcode) \o Operands(x) \o << " ", ";", " ", "0", "x" >>
        \o SetW(8, "0", Hexadecimal(toBinary(x)))

(* The field values the encoding is run on: values inside a field's width  *)
(* and values with bits above it, up to bit 30.                            *)
OpcodeValues == {0, PIM_CONFIG, 42, 63, 64 + PIM_CONFIG}
FieldValues == {0, 170, 255, 256, (2^30 - 86) + 2^30}
ImmValues == {0, 1, 3, 5, (2^30 - 2) + 2^30}
FieldNames == {"opcode", "dest", "src1", "src2", "imm"}
ValuesOf(f) ==
    IF f = "opcode" THEN OpcodeValues
    ELSE IF f = "imm" THEN ImmValues ELSE FieldValues

(* The value n with its bits above width w cleared, with only bit w set,   *)
(* or with all of them up to bit 30 set.                                   *)
WithBitsAbove(n, w, h) ==
    IF h = "clear" THEN n % 2^w
    ELSE IF h = "lowest" THEN (n % 2^w) + 2^w
    ELSE ((2^30 - 2^w) + 2^30) + (n % 2^w)

(* The lowering is not running.                                            *)
LowerIdle ==
    /\ entry = "none"
    /\ module = <<>>
    /\ fn = 0
    /\ rows = 0 /\ cols = 0 /\ common = 0
    /\ pc = "idle"
    /\ i = 0 /\ j = 0 /\ k = 0
    /\ instructions = <<>>
    /\ history = <<>>

InitEncoding ==
    /\ epc = "construct"
    /\ args \in [opcode : OpcodeValues, dest : FieldValues,
                 src1 : FieldValues, src2 : FieldValues, imm : ImmValues]
    /\ inst = <<>>
    /\ word = <<>>
    /\ encoded = <<>>
    /\ decoded = <<>>
    /\ other = <<>>
    /\ otherWord = <<>>
    /\ text = <<>>
    /\ otherText = <<>>

(* The constructor is called with the arguments.                           *)
Construct ==
    /\ epc = "construct"
    /\ inst' = PIMInstruction(args.opcode, args.dest, args.src1, args.src2,
                              args.imm)
    /\ epc' = "toBinary"
    /\ UNCHANGED <<args, word, encoded, decoded, other, otherWord, text,
                   otherText>>
    /\ UNCHANGED <<lowerVars, loggerSettings, loggerOutput, runVars, mapVars,
                   concVars, mainVars>>

(* inst.toBinary() is called.                                              *)
ToBinary ==
    /\ epc = "toBinary"
    /\ word' = toBinary(inst)
    /\ epc' = "encode"
    /\ UNCHANGED <<args, inst, encoded, decoded, other, otherWord, text,
                   otherText>>
    /\ UNCHANGED <<lowerVars, loggerSettings, loggerOutput, runVars, mapVars,
                   concVars, mainVars>>

(* PIMInstructionFormat::encode is called with the same arguments.         *)
Encode ==
    /\ epc = "encode"
    /\ encoded' = encode(args.opcode, args.dest, args.src1, args.src2,
                         args.imm)
    /\ epc' = "decode"
    /\ UNCHANGED <<args, inst, word, decoded, other, otherWord, text,
                   otherText>>
    /\ UNCHANGED <<lowerVars, loggerSettings, loggerOutput, runVars, mapVars,
                   concVars, mainVars>>

(* The five decoders are called on the encoded word.                       *)
Decode ==
    /\ epc = "decode"
    /\ decoded' = [opcode |-> decodeOpcode(encoded),
                   dest |-> decodeDest(encoded),
                   src1 |-> decodeSrc1(encoded),
                   src2 |-> decodeSrc2(encoded),
                   imm |-> decodeImm(encoded)]
    /\ epc' = "other"
    /\ UNCHANGED <<args, inst, word, encoded, other, otherWord, text,
                   otherText>>
    /\ UNCHANGED <<lowerVars, loggerSettings, loggerOutput, runVars, mapVars,
                   concVars, mainVars>>

(* A second instruction is constructed: inst with one field given another  *)
(* value, or with every field given other bits above its width.            *)
ConstructOther ==
    /\ epc \in {"other", "printed"}
    /\ \/ \E f \in FieldNames : \E v \in ValuesOf(f) :
            LET a == [args EXCEPT ![f] = v]
            IN  other' = PIMInstruction(a.opcode, a.dest, a.src1, a.src2,
                                        a.imm)
       \/ \E h \in {"clear", "lowest", "all"} :
            other' = PIMInstruction(WithBitsAbove(args.opcode, 6, h),
                                    WithBitsAbove(args.dest, 8, h),
                                    WithBitsAbove(args.src1, 8, h),
                                    WithBitsAbove(args.src2, 8, h),
                                    WithBitsAbove(args.imm, 2, h))
    /\ epc' = "otherBinary"
    /\ UNCHANGED <<args, inst, word, encoded, decoded, otherWord, text,
                   otherText>>
    /\ UNCHANGED <<lowerVars, loggerSettings, loggerOutput, runVars, mapVars,
                   concVars, mainVars>>

(* other.toBinary() is called.                                             *)
ToBinaryOther ==
    /\ epc = "otherBinary"
    /\ otherWord' = toBinary(other)
    /\ epc' = "done"
    /\ UNCHANGED <<args, inst, word, encoded, decoded, other, text,
                   otherText>>
    /\ UNCHANGED <<lowerVars, loggerSettings, loggerOutput, runVars, mapVars,
                   concVars, mainVars>>

(* The encoding is not running.                                            *)
EncIdle ==
    /\ epc = "idle"
    /\ args = <<>>
    /\ inst = <<>>
    /\ word = <<>>
    /\ encoded = <<>>
    /\ decoded = <<>>
    /\ other = <<>>
    /\ otherWord = <<>>
    /\ text = <<>>
    /\ otherText = <<>>

(* Logger::Logger: not verbose, no log file, nothing written.              *)
LoggerFresh ==
    /\ verbose = FALSE
    /\ fileOpen = FALSE
    /\ console = <<>>
    /\ logFile = <<>>

(* A single lowering run: no run has completed, no output is written.      *)
RunIdle ==
    /\ stage = "single"
    /\ runs = <<>>
    /\ output = <<>>

(* main is not running.                                                    *)
MainIdle ==
    /\ argv = <<>>
    /\ argi = 0
    /\ options = <<>>
    /\ readable = {}
    /\ writable = {}
    /\ mainpc = "idle"
    /\ events = <<>>
    /\ exitStatus = 0

(* No concurrent calls are running.                                        *)
ConcIdle ==
    /\ units = <<>>
    /\ cstate = <<>>
    /\ cpos = <<>>
    /\ cstreams = <<>>
    /\ cops = <<>>
    /\ raced = <<>>

(* The address-translation pass is not running.                            *)
MapIdle ==
    /\ mpc = "idle"
    /\ pass = 0
    /\ prog = <<>>
    /\ mfn = 0
    /\ toProcess = <<>>
    /\ calls = <<>>
    /\ once = <<>>

(* The instructions toString is run on: every opcode of the enum, opcode   *)
(* values without an enumerator, and fields inside and above their widths. *)
TextOpcodes == (PIM_NOP..PIM_CONFIG) \cup {18, 31, 42, 63, 64 + PIM_CONFIG}
TextDests == {0, 7, 170, (2^30 - 86) + 2^30}
TextSrc1s == {0, 255, 1000}
TextSrc2s == {0, 3, 256}
TextImms == {0, 1, 4}

InitDisassembly ==
    /\ epc = "construct"
    /\ args \in [opcode : TextOpcodes, dest : TextDests, src1 : TextSrc1s,
                 src2 : TextSrc2s, imm : TextImms]
    /\ inst = <<>>
    /\ word = <<>>
    /\ encoded = <<>>
    /\ decoded = <<>>
    /\ other = <<>>
    /\ otherWord = <<>>
    /\ text = <<>>
    /\ otherText = <<>>

(* inst.toString() is called.                                              *)
Disassemble ==
    /\ epc = "encode"
    /\ text' = toString(inst)
    /\ epc' = "printed"
    /\ UNCHANGED <<args, inst, word, encoded, decoded, other, otherWord,
                   otherText>>
    /\ UNCHANGED <<lowerVars, loggerSettings, loggerOutput, runVars, mapVars,
                   concVars, mainVars>>

(* other.toString() is called.                                             *)
DisassembleOther ==
    /\ epc = "done"
    /\ otherText' = toString(other)
    /\ epc' = "printedBoth"
    /\ UNCHANGED <<args, inst, word, encoded, decoded, other, otherWord,
                   text>>
    /\ UNCHANGED <<lowerVars, loggerSettings, loggerOutput, runVars, mapVars,
                   concVars, mainVars>>

Init == (InitPhases \/ InitGenerate) /\ LoggerFresh /\ RunIdle /\ EncIdle
            /\ MapIdle /\ ConcIdle /\ MainIdle

Next ==
    \/ GenerateEnter
    \/ SkipDeclaration
    \/ ProcessFunction
    \/ GenerateReturn
    \/ LoadConfigure
    \/ LoadA
    \/ LoadB
    \/ LoadC
    \/ MultiplyEnter
    \/ MultiplyStep
    \/ StoreEnter
    \/ StoreStep

Spec == Init /\ [][Next]_vars

(* The lowering is sequential code without blocking calls: a step that can *)
(* be taken is taken.                                                      *)
LiveSpec == Init /\ [][Next]_vars /\ WF_vars(Next)

EncInit == LowerIdle /\ LoggerFresh /\ RunIdle /\ InitEncoding /\ MapIdle
               /\ ConcIdle /\ MainIdle

EncNext ==
    \/ Construct
    \/ ToBinary
    \/ Encode
    \/ Decode
    \/ ConstructOther
    \/ ToBinaryOther

EncSpec == EncInit /\ [][EncNext]_vars

TextInit == LowerIdle /\ LoggerFresh /\ RunIdle /\ InitDisassembly /\ MapIdle
                /\ ConcIdle /\ MainIdle

TextNext ==
    \/ Construct
    \/ ToBinary
    \/ Disassemble

TextSpec == TextInit /\ [][TextNext]_vars

(* Two instructions are constructed, encoded and printed.                  *)
PairNext ==
    \/ Construct
    \/ ToBinary
    \/ Disassemble
    \/ ConstructOther
    \/ ToBinaryOther
    \/ DisassembleOther

PairSpec == EncInit /\ [][PairNext]_vars

----------------------------------------------------------------------------
(* Repeated runs of the lowering in one process: the Logger is a singleton *)
(* that outlives every run, the stream is local to each run.               *)

(* The inputs of the repeated runs: two dimension triples for the three    *)
(* phases, and a module with a declaration and a defined function.         *)
RunInputs ==
    { [entry |-> "phases", rows |-> 1, cols |-> 2, common |-> 1,
       module |-> <<>>],
      [entry |-> "phases", rows |-> 2, cols |-> 1, common |-> 1,
       module |-> <<>>],
      [entry |-> "generate", rows |-> 0, cols |-> 0, common |-> 0,
       module |-> << [name |-> "main", isDeclaration |-> TRUE],
                     [name |-> "matmul", isDeclaration |-> FALSE] >>] }

(* The lowering is about to be entered with input x.                       *)
RunStart(x) ==
    /\ entry = x.entry
    /\ module = x.module
    /\ fn = 0
    /\ rows = x.rows /\ cols = x.cols /\ common = x.common
    /\ pc = IF x.entry = "generate" THEN "generate" ELSE "load"
    /\ i = 0 /\ j = 0 /\ k = 0

(* The first of three runs: the Logger is in any state, with or without    *)
(* the line main logs before it calls generatePIMInstructions.             *)
InitRuns ==
    /\ \E x \in RunInputs : RunStart(x)
    /\ instructions = <<>>
    /\ history \in {<<>>, << <<"Generating PIM instructions...">> >>}
    /\ verbose \in BOOLEAN
    /\ fileOpen \in BOOLEAN
    /\ console = <<>>
    /\ logFile = <<>>
    /\ stage = "earlier"
    /\ runs = <<>>
    /\ output = <<>>

(* main writes instruction.toString() and a newline for each instruction.  *)
WriteOutput ==
    /\ pc = "done"
    /\ output' = [p \in 1..Len(instructions) |-> toString(instructions[p])]
    /\ pc' = "written"
    /\ UNCHANGED <<entry, module, fn, rows, cols, common, i, j, k,
                   instructions, history, stage, runs>>
    /\ UNCHANGED <<loggerSettings, loggerOutput, encVars, mapVars,
                   concVars, mainVars>>

(* The run that has ended is recorded, Logger::setVerbose and              *)
(* Logger::setOutputFile may be called, and the lowering is entered again: *)
(* after the earlier run with any input, after the first run with the      *)
(* input of the first run.  The three phases are handed an empty stream;   *)
(* generatePIMInstructions declares its own.                               *)
NextRun ==
    /\ pc = "written"
    /\ stage \in {"earlier", "first"}
    /\ runs' = Append(runs, [entry |-> entry, rows |-> rows, cols |-> cols,
                             common |-> common, module |-> module,
                             verbose |-> verbose, fileOpen |-> fileOpen,
                             stream |-> instructions, text |-> output])
    /\ stage' = IF stage = "earlier" THEN "first" ELSE "second"
    /\ \E x \in RunInputs :
         /\ stage = "first" =>
              /\ x.entry = entry
              /\ x.module = module
              /\ entry = "phases" =>
                   x.rows = rows /\ x.cols = cols /\ x.common = common
         /\ entry' = x.entry
         /\ module' = x.module
         /\ rows' = x.rows /\ cols' = x.cols /\ common' = x.common
         /\ pc' = IF x.entry = "generate" THEN "generate" ELSE "load"
         /\ instructions' = IF x.entry = "generate" THEN instructions ELSE <<>>
    /\ fn' = 0
    /\ i' = 0 /\ j' = 0 /\ k' = 0
    /\ output' = <<>>
    /\ verbose' \in BOOLEAN
    /\ fileOpen' \in BOOLEAN
    /\ UNCHANGED <<history, loggerOutput, encVars, mapVars, concVars, mainVars>>

RunsInit == InitRuns /\ EncIdle /\ MapIdle /\ ConcIdle /\ MainIdle

RunsNext ==
    \/ GenerateEnter
    \/ SkipDeclaration
    \/ ProcessFunction
    \/ GenerateReturn
    \/ LoadConfigure
    \/ LoadA
    \/ LoadB
    \/ LoadC
    \/ MultiplyEnter
    \/ MultiplyStep
    \/ StoreEnter
    \/ StoreStep
    \/ WriteOutput
    \/ NextRun

RunsSpec == RunsInit /\ [][RunsNext]_vars

----------------------------------------------------------------------------
(* The address translation: MemoryMapper.                                  *)

(* The largest constant index of the accesses the pass is run on.          *)
MaxIndex == 1

(* The value a pointer is based on: a llvm::GlobalVariable, or a value     *)
(* local to the function (an argument, the result of an alloca).           *)
Global(n) == [global |-> TRUE, name |-> n]
Local(n) == [global |-> FALSE, name |-> n]
NoBase == Local("")

(* An index of an address computation: a llvm::ConstantInt, or not.        *)
Const(n) == [const |-> TRUE, value |-> n]
NonConst == [const |-> FALSE, value |-> 0]

(* The pointer operand of a load or a store: the result of an instruction, *)
(* a getelementptr constant expression, or a global or local value itself. *)
InstValue(id) ==
    [form |-> "inst", ref |-> id, base |-> NoBase, indices |-> <<>>]
ConstantExpr(b, idx) ==
    [form |-> "constExpr", ref |-> 0, base |-> b, indices |-> idx]
Direct(b) == [form |-> "value", ref |-> 0, base |-> b, indices |-> <<>>]
NoValue == [form |-> "none", ref |-> 0, base |-> NoBase, indices |-> <<>>]

(* The instructions of a basic block.                                      *)
GetElementPtrInst(id, b, idx) ==
    [id |-> id, kind |-> "gep", ptr |-> NoValue, base |-> b, indices |-> idx]
LoadInst(id, v) ==
    [id |-> id, kind |-> "load", ptr |-> v, base |-> NoBase, indices |-> <<>>]
StoreInst(id, v) ==
    [id |-> id, kind |-> "store", ptr |-> v, base |-> NoBase,
     indices |-> <<>>]
OtherInst(id) ==
    [id |-> id, kind |-> "other", ptr |-> NoValue, base |-> NoBase,
     indices |-> <<>>]

(* detectMatrixDimensions: {rows, cols} of the three catalogued matrices.  *)
matrixInfo == [n \in {"A", "B", "C"} |-> <<2, 2>>]

(* The addresses the accesses of the input compute.  form "gep" stands for *)
(* a getelementptr instruction placed before the access.                   *)
Address(form, b, idx) == [form |-> form, base |-> b, indices |-> idx]
AddressSamples ==
    { Address("gep", Global("A"), << Const(r), Const(c) >>) :
          r \in 0..MaxIndex, c \in 0..MaxIndex }
    \cup
    { Address("gep", Global("C"), << Const(1), Const(0) >>),
      Address("gep", Global("D"), << Const(1), Const(1) >>),
      Address("gep", Local("A"), << Const(1), Const(1) >>),
      Address("gep", Global("A"), << Const(1) >>),
      Address("gep", Global("A"), << Const(0), Const(1), Const(1) >>),
      Address("gep", Global("A"), << NonConst, Const(1) >>),
      Address("gep", Global("B"), << Const(1), NonConst >>),
      Address("constExpr", Global("A"), << Const(1), Const(1) >>),
      Address("value", Global("A"), << >>),
      Address("value", Local("p"), << >>) }

(* The statements of the input: a load from any of the addresses, a store  *)
(* to some of them, and an instruction that is neither.                    *)
Statement(kind, a) == [kind |-> kind, address |-> a]
StatementSamples ==
    { Statement("load", a) : a \in AddressSamples }
    \cup
    { Statement("store", Address("gep", Global("A"),
                                 << Const(1), Const(1) >>)),
      Statement("store", Address("gep", Global("B"),
                                 << Const(1), NonConst >>)),
      Statement("other", Address("value", NoBase, << >>)) }

(* The instructions of the p-th statement of a function: the statement     *)
(* itself has id 2p, the getelementptr before it has id 2p - 1.            *)
InstructionsOf(p, st) ==
    IF st.kind = "other" THEN << OtherInst(2 * p) >>
    ELSE LET access(v) == IF st.kind = "load" THEN LoadInst(2 * p, v)
                                               ELSE StoreInst(2 * p, v)
         IN  IF st.address.form = "gep"
               THEN << GetElementPtrInst(2 * p - 1, st.address.base,
                                         st.address.indices),
                       access(InstValue(2 * p - 1)) >>
             ELSE IF st.address.form = "constExpr"
               THEN << access(ConstantExpr(st.address.base,
                                           st.address.indices)) >>
             ELSE << access(Direct(st.address.base)) >>

(* The functions of the input: a declaration, or a definition whose        *)
(* statements are split into basic blocks.                                 *)
Declaration(n) == [name |-> n, isDeclaration |-> TRUE, blocks |-> <<>>]
Definition(n, blocks) ==
    [name |-> n, isDeclaration |-> FALSE, blocks |-> blocks]
OneBlock(sts) ==
    << IF Len(sts) = 1 THEN InstructionsOf(1, sts[1])
       ELSE InstructionsOf(1, sts[1]) \o InstructionsOf(2, sts[2]) >>
TwoBlocks(sts) == << InstructionsOf(1, sts[1]), InstructionsOf(2, sts[2]) >>
SplitBlocks(sts) ==
    << InstructionsOf(1, sts[1]) \o InstructionsOf(2, sts[2]),
       InstructionsOf(3, sts[3]) >>
OrderSamples ==
    { Statement("load", Address("gep", Global("A"),
                                << Const(1), Const(1) >>)),
      Statement("store", Address("gep", Global("B"),
                                 << Const(1), NonConst >>)),
      Statement("other", Address("value", NoBase, << >>)) }
MapModules ==
    { << Definition("matmul", SplitBlocks(<< a, b, c >>)) >> :
          a \in OrderSamples, b \in OrderSamples, c \in OrderSamples }
    \cup
    { << Definition("matmul", OneBlock(<< a >>)) >> : a \in StatementSamples }
    \cup
    { << Definition("matmul", OneBlock(<< a, b >>)) >> :
          a \in StatementSamples, b \in StatementSamples }
    \cup
    { << Declaration("printf"), Definition("matmul", TwoBlocks(<< a, b >>)) >> :
          a \in StatementSamples, b \in StatementSamples }
    \cup
    { << Definition("init", OneBlock(<< a >>)), Declaration("printf"),
         Definition("matmul", OneBlock(<< b >>)) >> :
          a \in StatementSamples, b \in StatementSamples }

(* The instructions of a function: block order, then instruction order.    *)
RECURSIVE Flatten(_)
Flatten(blocks) ==
    IF blocks = <<>> THEN <<>> ELSE Head(blocks) \o Flatten(Tail(blocks))
InstructionById(f, id) ==
    LET all == Flatten(f.blocks)
    IN  all[CHOOSE p \in 1..Len(all) : all[p].id = id]

(* llvm::isa<LoadInst>(inst) || llvm::isa<StoreInst>(inst).                *)
IsLoad(x) == x.kind = "load"
IsAccess(x) == x.kind = "load" \/ x.kind = "store"

(* A mutation of the first loop of mapArrayAccesses that collects the      *)
(* loads only.                                                             *)
CollectLoadsOnly(f) ==
    LET found == SelectSeq(Flatten(f.blocks), IsLoad)
    IN  [p \in 1..Len(found) |-> found[p].id]

(* The first loop of mapArrayAccesses: instructionsToProcess, holding the  *)
(* instructions by their identity.                                         *)
Collect(f) ==
    LET found == SelectSeq(Flatten(f.blocks), IsAccess)
    IN  [p \in 1..Len(found) |-> found[p].id]

(* An identity no instruction of the function has.                         *)
FreshId(f) ==
    LET ids == {x.id : x \in {Flatten(f.blocks)[p] :
                                  p \in 1..Len(Flatten(f.blocks))}}
    IN  1 + (CHOOSE m \in ids : \A n \in ids : n <= m)

(* A mutation of CreateGEP for a builder that does not fold constants.     *)
CreateGEPNoFolder(f, b, idx) ==
    [value |-> InstValue(FreshId(f)),
     created |-> << GetElementPtrInst(FreshId(f), b, idx) >>]

(* llvm::IRBuilder<>::CreateGEP: with its default constant folder the      *)
(* builder returns a constant expression, and inserts nothing, when the    *)
(* base and every index are constants; otherwise it inserts a new          *)
(* getelementptr instruction before the access.                            *)
CreateGEP(f, b, idx) ==
    IF b.global /\ \A p \in 1..Len(idx) : idx[p].const
      THEN [value |-> ConstantExpr(b, idx), created |-> <<>>]
      ELSE [value |-> InstValue(FreshId(f)),
            created |-> << GetElementPtrInst(FreshId(f), b, idx) >>]

(* A mutation of the index computation that is column-major.               *)
LinearIndexColumnMajor(rowVal, colVal, columns) == colVal * columns + rowVal

(* unsigned linearIdx = rowVal * cols + colVal.                            *)
LinearIndex(rowVal, colVal, columns) == rowVal * columns + colVal

(* A mutation of the arity test that accepts more than two indices.        *)
TwoOrMoreIndices(gep) == Len(gep.indices) >= 2

(* gep->getNumIndices() == 2.                                              *)
TwoIndices(gep) == Len(gep.indices) = 2

(* A mutation of the cast that accepts a getelementptr constant expression *)
(* as well (llvm::GEPOperator).                                            *)
DynCastGEPOperator(f, v) ==
    IF v.form = "constExpr"
      THEN [ok |-> TRUE, base |-> v.base, indices |-> v.indices]
    ELSE IF v.form = "inst" /\ InstructionById(f, v.ref).kind = "gep"
      THEN [ok |-> TRUE, base |-> InstructionById(f, v.ref).base,
            indices |-> InstructionById(f, v.ref).indices]
    ELSE [ok |-> FALSE, base |-> NoBase, indices |-> <<>>]

(* llvm::dyn_cast<llvm::GetElementPtrInst>(ptr): the base pointer and the  *)
(* indices of the instruction, when ptr is the result of one.              *)
DynCastGetElementPtrInst(f, v) ==
    IF v.form = "inst" /\ InstructionById(f, v.ref).kind = "gep"
      THEN [ok |-> TRUE, base |-> InstructionById(f, v.ref).base,
            indices |-> InstructionById(f, v.ref).indices]
      ELSE [ok |-> FALSE, base |-> NoBase, indices |-> <<>>]

(* transformMemoryAccess on instruction x of function f: what it returns,  *)
(* the pointer operand x has afterwards, and the instructions the builder  *)
(* has inserted before x.                                                  *)
transformMemoryAccess(f, x) ==
    LET skip == [returned |-> FALSE, value |-> x.ptr, created |-> <<>>]
    IN  IF ~IsAccess(x) THEN skip
        ELSE LET gep == DynCastGetElementPtrInst(f, x.ptr)
             IN  IF ~gep.ok THEN skip
                 ELSE IF ~gep.base.global THEN skip
                 ELSE IF gep.base.name \notin DOMAIN matrixInfo THEN skip
                 ELSE IF ~TwoIndices(gep) THEN skip
                 ELSE IF ~gep.indices[1].const \/ ~gep.indices[2].const
                   THEN skip
                 ELSE
                   LET columns == matrixInfo[gep.base.name][2]
                       rowVal == gep.indices[1].value
                       colVal == gep.indices[2].value
                       linearIdx == LinearIndex(rowVal, colVal, columns)
                       new == CreateGEP(f, gep.base,
                                        << Const(0), Const(linearIdx) >>)
                   IN  [returned |-> TRUE, value |-> new.value,
                        created |-> new.created]

(* The base and the index list a load or a store of function f addresses.  *)
AddressOf(f, x) ==
    IF x.ptr.form = "inst"
      THEN LET g == InstructionById(f, x.ptr.ref)
           IN  Address("gep", g.base, g.indices)
    ELSE IF x.ptr.form = "constExpr"
      THEN Address("constExpr", x.ptr.base, x.ptr.indices)
    ELSE Address("value", x.ptr.base, << >>)

(* The block with the instruction of identity id replaced by repl.         *)
RECURSIVE ReplaceIn(_, _, _)
ReplaceIn(block, id, repl) ==
    IF block = <<>> THEN <<>>
    ELSE (IF Head(block).id = id THEN repl ELSE << Head(block) >>)
         \o ReplaceIn(Tail(block), id, repl)

(* The state of the lowering the pass leaves alone.                        *)
lowerState == <<entry, module, fn, rows, cols, common, pc, i, j, k,
                instructions>>

InitMapping ==
    /\ mpc = "start"
    /\ pass = 0
    /\ prog \in MapModules
    /\ mfn = 0
    /\ toProcess = <<>>
    /\ calls = <<>>
    /\ once = <<>>

(* applyMemoryMapping, up to the loop over the functions.                  *)
MapEnter ==
    /\ mpc = "start"
    /\ LoggerLog(<< <<"Starting memory mapping transformation">>,
                    <<"Detecting matrix dimensions">> >>)
    /\ pass' = pass + 1
    /\ mfn' = 1
    /\ mpc' = "functions"
    /\ UNCHANGED <<prog, toProcess, calls, once>>
    /\ UNCHANGED <<lowerState, loggerSettings, runVars, encVars,
                   concVars, mainVars>>

(* The loop over the functions: a declaration is skipped.                  *)
MapSkipDeclaration ==
    /\ mpc = "functions"
    /\ mfn <= Len(prog)
    /\ prog[mfn].isDeclaration
    /\ mfn' = mfn + 1
    /\ UNCHANGED <<mpc, pass, prog, toProcess, calls, once>>
    /\ UNCHANGED <<lowerVars, loggerSettings, loggerOutput, runVars, encVars,
                   concVars, mainVars>>

(* The loop over the functions: mapArrayAccesses is called on a defined    *)
(* function and collects its loads and stores.                             *)
MapCollect ==
    /\ mpc = "functions"
    /\ mfn <= Len(prog)
    /\ ~prog[mfn].isDeclaration
    /\ LoggerLog(<< <<"Applying memory mapping to function: ",
                      prog[mfn].name>> >>)
    /\ toProcess' = Collect(prog[mfn])
    /\ mpc' = "transform"
    /\ UNCHANGED <<pass, prog, mfn, calls, once>>
    /\ UNCHANGED <<lowerState, loggerSettings, runVars, encVars,
                   concVars, mainVars>>

(* One iteration of the second loop of mapArrayAccesses: the call of       *)
(* transformMemoryAccess, whose result is discarded.                       *)
MapTransform ==
    /\ mpc = "transform"
    /\ toProcess # <<>>
    /\ LET f == prog[mfn]
           x == InstructionById(f, Head(toProcess))
           r == transformMemoryAccess(f, x)
           y == [x EXCEPT !.ptr = r.value]
           after == [b \in 1..Len(f.blocks) |->
                        ReplaceIn(f.blocks[b], x.id, r.created \o << y >>)]
       IN  /\ prog' = [prog EXCEPT ![mfn].blocks = after]
           /\ calls' = Append(calls,
                          [pass |-> pass, fn |-> mfn, id |-> x.id,
                           kind |-> x.kind, before |-> AddressOf(f, x),
                           operand |-> x.ptr, body |-> f.blocks,
                           after |-> after, returned |-> r.returned])
    /\ toProcess' = Tail(toProcess)
    /\ UNCHANGED <<mpc, pass, mfn, once>>
    /\ UNCHANGED <<lowerVars, loggerSettings, loggerOutput, runVars, encVars,
                   concVars, mainVars>>

(* The second loop of mapArrayAccesses has ended.                          *)
MapFunctionDone ==
    /\ mpc = "transform"
    /\ toProcess = <<>>
    /\ mfn' = mfn + 1
    /\ mpc' = "functions"
    /\ UNCHANGED <<pass, prog, toProcess, calls, once>>
    /\ UNCHANGED <<lowerVars, loggerSettings, loggerOutput, runVars, encVars,
                   concVars, mainVars>>

(* The loop over the functions has ended: the module is returned.          *)
MapReturn ==
    /\ mpc = "functions"
    /\ mfn > Len(prog)
    /\ LoggerLog(<< <<"Memory mapping transformation complete">> >>)
    /\ once' = IF pass = 1 THEN prog ELSE once
    /\ mpc' = "mapped"
    /\ UNCHANGED <<pass, prog, mfn, toProcess, calls>>
    /\ UNCHANGED <<lowerState, loggerSettings, runVars, encVars,
                   concVars, mainVars>>

(* applyMemoryMapping is called a second time, on the module it returned.  *)
MapAgain ==
    /\ mpc = "mapped"
    /\ pass = 1
    /\ mpc' = "start"
    /\ mfn' = 0
    /\ UNCHANGED <<pass, prog, toProcess, calls, once>>
    /\ UNCHANGED <<lowerVars, loggerSettings, loggerOutput, runVars, encVars,
                   concVars, mainVars>>

MapInit == LowerIdle /\ LoggerFresh /\ RunIdle /\ EncIdle /\ InitMapping
               /\ ConcIdle /\ MainIdle

MapNext ==
    \/ MapEnter
    \/ MapSkipDeclaration
    \/ MapCollect
    \/ MapTransform
    \/ MapFunctionDone
    \/ MapReturn
    \/ MapAgain

MapSpec == MapInit /\ [][MapNext]_vars

----------------------------------------------------------------------------
(* Two calls of generatePIMInstructions running concurrently, one thread   *)
(* each.  A call is the sequence of its operations: a push_back on its     *)
(* local vector, or a call of Logger::log.  Logger::log holds no lock, so  *)
(* two calls of it can overlap; overlapping push_backs on Logger::history  *)
(* are a data race, whose outcome is not defined.                          *)

Threads == {1, 2}

(* The loops of the three phases, unrolled.                                *)
LoadSequence ==
    ConfigInstructions
    \o [ p \in 1..(rows * common) |->
           PIMInstruction(PIM_LOAD,
                          LoadADest((p - 1) \div common, (p - 1) % common),
                          0, (p - 1) \div common, (p - 1) % common) ]
    \o [ p \in 1..(common * cols) |->
           PIMInstruction(PIM_LOAD,
                          LoadBDest((p - 1) \div cols, (p - 1) % cols),
                          0, (p - 1) \div cols, (p - 1) % cols) ]
    \o [ p \in 1..(rows * cols) |->
           PIMInstruction(PIM_LOAD,
                          LoadCDest((p - 1) \div cols, (p - 1) % cols),
                          0, (p - 1) \div cols, (p - 1) % cols) ]
MultiplySequence ==
    [ p \in 1..(6 * rows * cols * common) |->
        LET g == (p - 1) \div 6
        IN  MultiplyBody(g \div (cols * common), (g \div common) % cols,
                         g % common)[((p - 1) % 6) + 1] ]
StoreSequence ==
    [ p \in 1..(rows * cols) |->
        PIMInstruction(PIM_STORE, 0,
                       store_c_addr((p - 1) \div cols, (p - 1) % cols),
                       (p - 1) \div cols, (p - 1) % cols) ]

(* The operations of a call, in program order.                             *)
LogOp(msg) == [kind |-> "log", arg |-> msg]
PushOps(s) == [ p \in 1..Len(s) |-> [kind |-> "push", arg |-> s[p]] ]
FunctionOps(f) ==
    IF f.isDeclaration THEN << >>
    ELSE << LogOp(<<"Processing function: ", f.name>>),
            LogOp(<<"Matrix dimensions: ", FixedRows, FixedCommon,
                    FixedCommon, FixedCols>>),
            LogOp(<<"Generating matrix load instructions">>) >>
         \o PushOps(LoadSequence)
         \o << LogOp(<<"Generating matrix multiply instructions">>) >>
         \o PushOps(MultiplySequence)
         \o << LogOp(<<"Generating store result instructions">>) >>
         \o PushOps(StoreSequence)
RECURSIVE ModuleOps(_)
ModuleOps(mod) ==
    IF mod = << >> THEN << >>
    ELSE FunctionOps(Head(mod)) \o ModuleOps(Tail(mod))
GenerateOps(mod) ==
    << LogOp(<<"Starting PIM instruction generation">>) >>
    \o ModuleOps(mod)
    \o << [kind |-> "logSize", arg |-> << >>] >>

(* The operation a call is at, and the message its Logger::log carries.    *)
CurrentOp(t) == cops[t][cpos[t] + 1]
AtOp(t) == cpos[t] < Len(cops[t])
CurrentMessage(t) ==
    IF CurrentOp(t).kind = "logSize"
      THEN <<"Generated ", Len(cstreams[t]), " PIM instructions">>
      ELSE CurrentOp(t).arg

(* The content of Logger::history after overlapping push_backs have        *)
(* written it: not specified, and not specified after later push_backs.    *)
Unspecified == << <<"unspecified">> >>
LogAfterRace(h, msg) == IF h = Unspecified THEN Unspecified ELSE Log(h, msg)

(* The pairs of modules the two calls are given.                           *)
UnitPairs ==
    { << << [name |-> "matmul", isDeclaration |-> FALSE] >>,
         << [name |-> "matmul", isDeclaration |-> FALSE] >> >>,
      << << [name |-> "main", isDeclaration |-> TRUE],
            [name |-> "matmul", isDeclaration |-> FALSE] >>,
         << >> >> }

InitConcurrent ==
    /\ entry = "concurrent"
    /\ module = << >>
    /\ fn = 0
    /\ rows = FixedRows /\ cols = FixedCols /\ common = FixedCommon
    /\ pc = "idle"
    /\ i = 0 /\ j = 0 /\ k = 0
    /\ instructions = << >>
    /\ history = << >>
    /\ units \in UnitPairs
    /\ cstate = [t \in Threads |-> "run"]
    /\ cpos = [t \in Threads |-> 0]
    /\ cstreams = [t \in Threads |-> << >>]
    /\ cops = [t \in Threads |-> GenerateOps(units[t])]
    /\ raced = [t \in Threads |-> FALSE]

(* instructions.push_back on the call's own vector.                        *)
ConcAppend ==
    \E t \in Threads :
        /\ cstate[t] = "run"
        /\ AtOp(t)
        /\ CurrentOp(t).kind = "push"
        /\ cstreams' = [cstreams EXCEPT ![t] = PushBack(@, CurrentOp(t).arg)]
        /\ cpos' = [cpos EXCEPT ![t] = @ + 1]
        /\ UNCHANGED <<units, cstate, cops, raced>>
        /\ UNCHANGED <<lowerVars, loggerSettings, loggerOutput, runVars,
                       encVars, mapVars, mainVars>>

(* A call enters Logger::log; if another call is inside it, the two        *)
(* overlap.                                                                *)
ConcLogEnter ==
    \E t \in Threads :
        /\ cstate[t] = "run"
        /\ AtOp(t)
        /\ CurrentOp(t).kind \in {"log", "logSize"}
        /\ cstate' = [cstate EXCEPT ![t] = "inLog"]
        /\ raced' = IF \E u \in Threads \ {t} : cstate[u] = "inLog"
                      THEN [u \in Threads |->
                              raced[u] \/ u = t \/ cstate[u] = "inLog"]
                      ELSE raced
        /\ UNCHANGED <<units, cpos, cstreams, cops>>
        /\ UNCHANGED <<lowerVars, loggerSettings, loggerOutput, runVars,
                       encVars, mapVars, mainVars>>

(* Logger::log returns after a history.push_back that nothing overlapped.  *)
ConcLogExit ==
    \E t \in Threads :
        /\ cstate[t] = "inLog"
        /\ ~raced[t]
        /\ history' = LogAfterRace(history, CurrentMessage(t))
        /\ cstate' = [cstate EXCEPT ![t] = "run"]
        /\ cpos' = [cpos EXCEPT ![t] = @ + 1]
        /\ UNCHANGED <<units, cstreams, cops, raced>>
        /\ UNCHANGED <<entry, module, fn, rows, cols, common, pc, i, j, k,
                       instructions>>
        /\ UNCHANGED <<loggerSettings, loggerOutput, runVars, encVars,
                       mapVars, mainVars>>

(* The history.push_back of this call overlapped another one: the message  *)
(* is appended, or the vector is left with unspecified content, or the     *)
(* process is terminated (the vector's buffer is freed twice or written    *)
(* after it was freed).                                                    *)
ConcLogRace ==
    \E t \in Threads :
        /\ cstate[t] = "inLog"
        /\ raced[t]
        /\ \/ /\ history' \in {LogAfterRace(history, CurrentMessage(t)),
                              Unspecified}
              /\ cstate' = [cstate EXCEPT ![t] = "run"]
              /\ cpos' = [cpos EXCEPT ![t] = @ + 1]
              /\ raced' = [raced EXCEPT ![t] = FALSE]
           \/ /\ cstate' = [u \in Threads |-> "aborted"]
              /\ UNCHANGED <<history, cpos, raced>>
        /\ UNCHANGED <<units, cstreams, cops>>
        /\ UNCHANGED <<entry, module, fn, rows, cols, common, pc, i, j, k,
                       instructions>>
        /\ UNCHANGED <<loggerSettings, loggerOutput, runVars, encVars,
                       mapVars, mainVars>>

(* return instructions.                                                    *)
ConcReturn ==
    \E t \in Threads :
        /\ cstate[t] = "run"
        /\ ~AtOp(t)
        /\ cstate' = [cstate EXCEPT ![t] = "returned"]
        /\ UNCHANGED <<units, cpos, cstreams, cops, raced>>
        /\ UNCHANGED <<lowerVars, loggerSettings, loggerOutput, runVars,
                       encVars, mapVars, mainVars>>

ConcInit == InitConcurrent /\ LoggerFresh /\ RunIdle /\ EncIdle /\ MapIdle
                /\ MainIdle

ConcNext ==
    \/ ConcAppend
    \/ ConcLogEnter
    \/ ConcLogExit
    \/ ConcLogRace
    \/ ConcReturn

ConcSpec == ConcInit /\ [][ConcNext]_vars

----------------------------------------------------------------------------
(* main (src/src/main.cpp): the command line, the two files, the stages of *)
(* the pipeline and the exit status.                                       *)

(* The longest command line of the model.                                  *)
MaxArgs == 3

(* The arguments of the model; the two that do not start with '-'.         *)
FileTokens == {"in.c", "out.pim"}
ArgTokens ==
    {"-h", "-v", "--refactor", "--refactor-only", "-o", "-x"} \cup FileTokens
StartsWithDash(arg) == arg \notin FileTokens

(* The locals of main before the loop over argv.                           *)
DefaultOptions ==
    [inputFile |-> "", outputFile |-> "a.out", verbose |-> FALSE,
     dumpIR |-> FALSE, enableRefactoring |-> FALSE, refactorOnly |-> FALSE]

(* The modules the IR generator hands to the rest of the pipeline.         *)
MainModules ==
    { << >>,
      << [name |-> "matmul", isDeclaration |-> FALSE] >>,
      << [name |-> "main", isDeclaration |-> TRUE],
         [name |-> "matmul", isDeclaration |-> FALSE] >> }

(* What a call of generatePIMInstructions appends and logs.                *)
IsPush(op) == op.kind = "push"
IsLogging(op) == op.kind \in {"log", "logSize"}
Pushed(ops) ==
    LET pushes == SelectSeq(ops, IsPush)
    IN  [ p \in 1..Len(pushes) |-> pushes[p].arg ]
Logged(ops, size) ==
    LET logs == SelectSeq(ops, IsLogging)
    IN  [ p \in 1..Len(logs) |->
            IF logs[p].kind = "logSize"
              THEN <<"Generated ", size, " PIM instructions">>
              ELSE logs[p].arg ]

(* What applyMemoryMapping logs.                                           *)
RECURSIVE MappingLines(_)
MappingLines(mod) ==
    IF mod = << >> THEN << >>
    ELSE (IF Head(mod).isDeclaration THEN << >>
          ELSE << <<"Applying memory mapping to function: ",
                    Head(mod).name>> >>)
         \o MappingLines(Tail(mod))

InitMain ==
    /\ entry = "main"
    /\ module = << >>
    /\ fn = 0
    /\ rows = FixedRows /\ cols = FixedCols /\ common = FixedCommon
    /\ pc = "idle"
    /\ i = 0 /\ j = 0 /\ k = 0
    /\ instructions = << >>
    /\ history = << >>
    /\ stage = "single"
    /\ runs = << >>
    /\ output = << >>
    /\ argv \in UNION { [1..n -> ArgTokens] : n \in 0..MaxArgs }
    /\ argi = 1
    /\ options = DefaultOptions
    /\ readable \in SUBSET FileTokens
    /\ writable \in SUBSET {"out.pim", "a.out"}
    /\ mainpc = "args"
    /\ events = << >>
    /\ exitStatus = 0

(* One iteration of the loop over argv.                                    *)
MainArg ==
    /\ mainpc = "args"
    /\ argi <= Len(argv)
    /\ LET arg == argv[argi]
       IN  IF arg = "-h"
             THEN /\ mainpc' = "exited" /\ exitStatus' = 0
                  /\ UNCHANGED <<argi, options>>
           ELSE IF arg = "-v"
             THEN /\ options' = [options EXCEPT !.verbose = TRUE]
                  /\ argi' = argi + 1
                  /\ UNCHANGED <<mainpc, exitStatus>>
           ELSE IF arg = "--dump-ir"
             THEN /\ options' = [options EXCEPT !.dumpIR = TRUE]
                  /\ argi' = argi + 1
                  /\ UNCHANGED <<mainpc, exitStatus>>
           ELSE IF arg = "--refactor"
             THEN /\ options' = [options EXCEPT !.enableRefactoring = TRUE]
                  /\ argi' = argi + 1
                  /\ UNCHANGED <<mainpc, exitStatus>>
           ELSE IF arg = "--refactor-only"
             THEN /\ options' = [options EXCEPT !.enableRefactoring = TRUE,
                                                !.refactorOnly = TRUE]
                  /\ argi' = argi + 1
                  /\ UNCHANGED <<mainpc, exitStatus>>
           ELSE IF arg = "-o" /\ argi + 1 <= Len(argv)
             THEN /\ options' = [options EXCEPT !.outputFile = argv[argi + 1]]
                  /\ argi' = argi + 2
                  /\ UNCHANGED <<mainpc, exitStatus>>
           ELSE IF ~StartsWithDash(arg)
             THEN /\ options' = [options EXCEPT !.inputFile = arg]
                  /\ argi' = argi + 1
                  /\ UNCHANGED <<mainpc, exitStatus>>
           ELSE /\ mainpc' = "exited" /\ exitStatus' = 1
                /\ UNCHANGED <<argi, options>>
    /\ UNCHANGED <<argv, readable, writable, events>>
    /\ UNCHANGED <<lowerVars, loggerSettings, loggerOutput, runVars, encVars,
                   mapVars, concVars>>

(* After the loop: no input file was named.                                *)
MainNoInput ==
    /\ mainpc = "args"
    /\ argi > Len(argv)
    /\ options.inputFile = ""
    /\ mainpc' = "exited"
    /\ exitStatus' = 1
    /\ UNCHANGED <<argv, argi, options, readable, writable, events>>
    /\ UNCHANGED <<lowerVars, loggerSettings, loggerOutput, runVars, encVars,
                   mapVars, concVars>>

(* After the loop: the Logger is set up and logs the two file names.       *)
MainSetup ==
    /\ mainpc = "args"
    /\ argi > Len(argv)
    /\ options.inputFile # ""
    /\ verbose' = options.verbose
    /\ LET msgs == << <<"PIM Compiler started">>,
                      <<"Input file: ", options.inputFile>>,
                      <<"Output file: ", options.outputFile>> >>
       IN  /\ history' = LogAll(history, msgs)
           /\ console' = IF options.verbose THEN console \o msgs ELSE console
           /\ logFile' = IF fileOpen THEN logFile \o msgs ELSE logFile
    /\ mainpc' = "openInput"
    /\ UNCHANGED <<argv, argi, options, readable, writable, events,
                   exitStatus>>
    /\ UNCHANGED <<entry, module, fn, rows, cols, common, pc, i, j, k,
                   instructions>>
    /\ UNCHANGED <<fileOpen, runVars, encVars, mapVars, concVars>>

(* A mutation of the opening of the input file that does not test the      *)
(* stream.                                                                 *)
MainOpenInputUnchecked ==
    /\ mainpc = "openInput"
    /\ events' = Append(events, "open input")
    /\ mainpc' = IF options.enableRefactoring THEN "refactor" ELSE "parse"
    /\ UNCHANGED <<argv, argi, options, readable, writable, exitStatus>>
    /\ UNCHANGED <<lowerVars, loggerSettings, loggerOutput, runVars, encVars,
                   mapVars, concVars>>

(* std::ifstream inFile(inputFile): main returns 1 if it did not open, and *)
(* reads the source otherwise.                                             *)
MainOpenInput ==
    /\ mainpc = "openInput"
    /\ events' = Append(events, "open input")
    /\ IF options.inputFile \notin readable
         THEN mainpc' = "exited" /\ exitStatus' = 1
         ELSE /\ mainpc' = IF options.enableRefactoring
                             THEN "refactor" ELSE "parse"
              /\ UNCHANGED exitStatus
    /\ UNCHANGED <<argv, argi, options, readable, writable>>
    /\ UNCHANGED <<lowerVars, loggerSettings, loggerOutput, runVars, encVars,
                   mapVars, concVars>>

(* The refactoring analysis; it may write the refactored source, and with  *)
(* --refactor-only main returns 0 after it.                                *)
MainRefactor ==
    /\ mainpc = "refactor"
    /\ LoggerLog(<< <<"Running AI-powered code refactoring analysis...">> >>)
    /\ \E wrote \in BOOLEAN :
         events' = events \o << "refactor" >>
                     \o (IF wrote THEN << "write refactored" >> ELSE << >>)
    /\ IF options.refactorOnly
         THEN mainpc' = "exited" /\ exitStatus' = 0
         ELSE mainpc' = "parse" /\ UNCHANGED exitStatus
    /\ UNCHANGED <<argv, argi, options, readable, writable>>
    /\ UNCHANGED <<entry, module, fn, rows, cols, common, pc, i, j, k,
                   instructions>>
    /\ UNCHANGED <<loggerSettings, runVars, encVars, mapVars, concVars>>

(* parser.parse and irGenerator.generateIR: a module is produced, or an    *)
(* exception reaches the handler of main, which returns 1.  The lines the  *)
(* parser and the IR generator log themselves depend on the build and are  *)
(* left out.                                                               *)
MainParse ==
    /\ mainpc = "parse"
    /\ \/ /\ LoggerLog(<< <<"Parsing input file...">> >>)
          /\ events' = Append(events, "parse")
          /\ mainpc' = "exited"
          /\ exitStatus' = 1
          /\ UNCHANGED module
       \/ /\ LoggerLog(<< <<"Parsing input file...">>,
                          <<"Generating LLVM IR...">> >>)
          /\ events' = events \o << "parse", "generate IR" >>
          /\ module' \in MainModules
          /\ mainpc' = "map"
          /\ UNCHANGED exitStatus
    /\ UNCHANGED <<argv, argi, options, readable, writable>>
    /\ UNCHANGED <<entry, fn, rows, cols, common, pc, i, j, k, instructions>>
    /\ UNCHANGED <<loggerSettings, runVars, encVars, mapVars, concVars>>

(* memoryMapper.applyMemoryMapping(module).                                *)
MainMap ==
    /\ mainpc = "map"
    /\ LoggerLog(<< <<"Applying memory mapping for PIM architecture...">>,
                    <<"Starting memory mapping transformation">>,
                    <<"Detecting matrix dimensions">> >>
                 \o MappingLines(module)
                 \o << <<"Memory mapping transformation complete">> >>)
    /\ events' = Append(events, "map")
    /\ mainpc' = "lower"
    /\ UNCHANGED <<argv, argi, options, readable, writable, exitStatus>>
    /\ UNCHANGED <<entry, module, fn, rows, cols, common, pc, i, j, k,
                   instructions>>
    /\ UNCHANGED <<loggerSettings, runVars, encVars, mapVars, concVars>>

(* backend.generatePIMInstructions(mappedModule), and the analysis of the  *)
(* instructions when refactoring is enabled.                               *)
MainLower ==
    /\ mainpc = "lower"
    /\ instructions' = Pushed(GenerateOps(module))
    /\ LoggerLog(<< <<"Generating PIM instructions...">> >>
                 \o Logged(GenerateOps(module),
                           Len(Pushed(GenerateOps(module))))
                 \o (IF options.enableRefactoring
                       THEN << <<"Analyzing generated PIM instructions...">> >>
                       ELSE << >>))
    /\ events' = Append(events, "lower")
    /\ mainpc' = "openOutput"
    /\ UNCHANGED <<argv, argi, options, readable, writable, exitStatus>>
    /\ UNCHANGED <<entry, module, fn, rows, cols, common, pc, i, j, k>>
    /\ UNCHANGED <<loggerSettings, runVars, encVars, mapVars, concVars>>

(* std::ofstream outFile(outputFile): main returns 1 if it did not open.   *)
MainOpenOutput ==
    /\ mainpc = "openOutput"
    /\ events' = Append(events, "open output")
    /\ IF options.outputFile \notin writable
         THEN mainpc' = "exited" /\ exitStatus' = 1
         ELSE mainpc' = "write" /\ UNCHANGED exitStatus
    /\ UNCHANGED <<argv, argi, options, readable, writable>>
    /\ UNCHANGED <<lowerVars, loggerSettings, loggerOutput, runVars, encVars,
                   mapVars, concVars>>

(* The loop writing one line for each instruction, the last log line and   *)
(* return 0.                                                               *)
MainWrite ==
    /\ mainpc = "write"
    /\ output' = [p \in 1..Len(instructions) |-> toString(instructions[p])]
    /\ LoggerLog(<< <<"Compilation completed successfully">> >>)
    /\ events' = Append(events, "write")
    /\ mainpc' = "exited"
    /\ exitStatus' = 0
    /\ UNCHANGED <<argv, argi, options, readable, writable>>
    /\ UNCHANGED <<entry, module, fn, rows, cols, common, pc, i, j, k,
                   instructions>>
    /\ UNCHANGED <<loggerSettings, stage, runs, encVars, mapVars, concVars>>

MainInit == InitMain /\ LoggerFresh /\ EncIdle /\ MapIdle /\ ConcIdle

MainNext ==
    \/ MainArg
    \/ MainNoInput
    \/ MainSetup
    \/ MainOpenInput
    \/ MainRefactor
    \/ MainParse
    \/ MainMap
    \/ MainLower
    \/ MainOpenOutput
    \/ MainWrite

MainSpec == MainInit /\ [][MainNext]_vars

----------------------------------------------------------------------------
(* The properties.  The expected stream is written out from the sizes of   *)
(* the three matrices; none of it is taken from the operators above.       *)

SizeA == rows * common
SizeB == common * cols
SizeC == rows * cols
LoadEnd == 3 + SizeA + SizeB + SizeC
ComputeEnd == LoadEnd + 6 * rows * cols * common
Emitted(p) == p <= Len(instructions)
Instr(op, d, s1, s2, m) ==
    [opcode |-> op, dest |-> d, src1 |-> s1, src2 |-> s2, imm |-> m]
PhasesDone == entry = "phases" /\ pc = "done"
IsPrefix(s, t) == Len(s) <= Len(t) /\ SubSeq(t, 1, Len(s)) = s

(* C1: after the three phases have run on an empty stream, the stream      *)
(* holds 3 + rows*common + common*cols + rows*cols + 6*rows*cols*common +  *)
(* rows*cols instructions.                                                 *)
C1_InstructionCount ==
    PhasesDone =>
        Len(instructions) = 3 + rows * common + common * cols + rows * cols
                              + 6 * rows * cols * common + rows * cols

C1_Witness ==
    /\ PhasesDone
    /\ rows = 3 /\ cols = 4 /\ common = 2
    /\ Len(instructions) = 185

(* C2: every STORE of the store phase, emitted for C[i][j] (its src2 is i  *)
(* and its imm is j), has src1 = rows*common + common*cols + i*cols + j,   *)
(* the address the load and compute phases use for C[i][j].                *)
C2_StoreAddressConsistent ==
    entry = "phases" =>
        \A p \in 1..Len(instructions) :
            instructions[p].opcode = PIM_STORE =>
                instructions[p].src1 =
                    rows * common + common * cols
                      + instructions[p].src2 * cols + instructions[p].imm

(* C3: the stream only grows at its end, and it reads: 3 CONFIG, then the  *)
(* LOADs of A, of B and of C, then MOVE/MUL/ADD, then the STOREs.          *)
C3_OpcodeAt(p) ==
    IF p <= 3 THEN {PIM_CONFIG}
    ELSE IF p <= LoadEnd THEN {PIM_LOAD}
    ELSE IF p <= ComputeEnd THEN {PIM_MOVE, PIM_MUL, PIM_ADD}
    ELSE {PIM_STORE}
C3_BlockOrdered ==
    \A p \in 1..Len(instructions) :
        /\ instructions[p].opcode \in C3_OpcodeAt(p)
        /\ (3 < p /\ p <= 3 + SizeA) =>
               instructions[p].dest \in 0..(SizeA - 1)
        /\ (3 + SizeA < p /\ p <= 3 + SizeA + SizeB) =>
               instructions[p].dest \in SizeA..(SizeA + SizeB - 1)
        /\ (3 + SizeA + SizeB < p /\ p <= LoadEnd) =>
               instructions[p].dest \in
                   (SizeA + SizeB)..(SizeA + SizeB + SizeC - 1)
C3_AppendOnlyPhases ==
    /\ [][IsPrefix(instructions, instructions')]_vars
    /\ [](entry = "phases" => C3_BlockOrdered)

C3_Witness ==
    /\ PhasesDone
    /\ rows = 2 /\ cols = 3 /\ common = 1
    /\ instructions[1].opcode = PIM_CONFIG
    /\ instructions[4].opcode = PIM_LOAD
    /\ instructions[LoadEnd + 1].opcode = PIM_MOVE
    /\ instructions[Len(instructions)].opcode = PIM_STORE

(* C4: the compute phase is, for every (i, j, k) with i outermost and k    *)
(* innermost, the group MOVE(0,a) MOVE(1,b) MUL(2,0,1) MOVE(3,c)           *)
(* ADD(3,3,2) MOVE(c,3), with a = i*common+k, b = rows*common + k*cols + j *)
(* and c = rows*common + common*cols + i*cols + j; it holds nothing else,  *)
(* and C[i][j] is read and written back once for each k.                   *)
C4_Group(a, b, m) ==
    << Instr(PIM_MOVE, 0, a * common + m, 0, 0),
       Instr(PIM_MOVE, 1, rows * common + m * cols + b, 0, 0),
       Instr(PIM_MUL, 2, 0, 1, 0),
       Instr(PIM_MOVE, 3, rows * common + common * cols + a * cols + b, 0, 0),
       Instr(PIM_ADD, 3, 3, 2, 0),
       Instr(PIM_MOVE, rows * common + common * cols + a * cols + b, 3, 0, 0) >>
C4_GroupStart(a, b, m) == LoadEnd + 6 * ((a * cols + b) * common + m)
C4_ComputePhase ==
    entry = "phases" =>
        /\ \A a \in 0..(rows - 1) : \A b \in 0..(cols - 1) :
             \A m \in 0..(common - 1) :
               Emitted(C4_GroupStart(a, b, m) + 6) =>
                   SubSeq(instructions, C4_GroupStart(a, b, m) + 1,
                          C4_GroupStart(a, b, m) + 6) = C4_Group(a, b, m)
        /\ pc \in {"multiply", "multiplyLoop"} =>
               Len(instructions) <= ComputeEnd
        /\ pc \in {"multiplyLoop"} =>
               Len(instructions) =
                   LoadEnd + 6 * ((i * cols + j) * common + k)
        /\ pc \in {"store", "storeLoop", "done"} =>
               /\ Len(instructions) >= ComputeEnd
               /\ \A a \in 0..(rows - 1) : \A b \in 0..(cols - 1) :
                    Cardinality({g \in 0..(rows * cols * common - 1) :
                        /\ instructions[LoadEnd + 6 * g + 4] =
                             C4_Group(a, b, 0)[4]
                        /\ instructions[LoadEnd + 6 * g + 6] =
                             C4_Group(a, b, 0)[6]}) = common

C4_Witness ==
    /\ PhasesDone
    /\ rows = 2 /\ cols = 2 /\ common = 2
    /\ instructions[58] = Instr(PIM_MOVE, 0, 3, 0, 0)
    /\ instructions[59] = Instr(PIM_MOVE, 1, 7, 0, 0)
    /\ instructions[63] = Instr(PIM_MOVE, 11, 3, 0, 0)

(* C5: the load phase is CONFIG(0, rows*common), CONFIG(1, common*cols),   *)
(* CONFIG(2, rows*cols), then row-major one LOAD for each element of A     *)
(* (dest i*common+k), of B (dest rows*common + k*cols + j) and of C (dest  *)
(* rows*common + common*cols + i*cols + j), every LOAD with src1 = 0,      *)
(* src2 = the row and imm = the column.                                    *)
C5_LoadPhase ==
    entry = "phases" =>
        /\ Emitted(3) =>
             /\ instructions[1] = Instr(PIM_CONFIG, 0, rows * common, 0, 0)
             /\ instructions[2] = Instr(PIM_CONFIG, 1, common * cols, 0, 0)
             /\ instructions[3] = Instr(PIM_CONFIG, 2, rows * cols, 0, 0)
        /\ \A a \in 0..(rows - 1) : \A m \in 0..(common - 1) :
             Emitted(3 + a * common + m + 1) =>
                 instructions[3 + a * common + m + 1] =
                     Instr(PIM_LOAD, a * common + m, 0, a, m)
        /\ \A m \in 0..(common - 1) : \A b \in 0..(cols - 1) :
             Emitted(3 + SizeA + m * cols + b + 1) =>
                 instructions[3 + SizeA + m * cols + b + 1] =
                     Instr(PIM_LOAD, rows * common + m * cols + b, 0, m, b)
        /\ \A a \in 0..(rows - 1) : \A b \in 0..(cols - 1) :
             Emitted(3 + SizeA + SizeB + a * cols + b + 1) =>
                 instructions[3 + SizeA + SizeB + a * cols + b + 1] =
                     Instr(PIM_LOAD,
                           rows * common + common * cols + a * cols + b,
                           0, a, b)
        /\ pc \in {"loadA", "loadB", "loadC"} =>
               (3 <= Len(instructions) /\ Len(instructions) < LoadEnd)
        /\ pc = "multiply" => Len(instructions) = LoadEnd

C5_Witness ==
    /\ entry = "phases"
    /\ pc = "multiply"
    /\ rows = 2 /\ cols = 3 /\ common = 2
    /\ instructions[8] = Instr(PIM_LOAD, 4, 0, 0, 0)
    /\ instructions[13] = Instr(PIM_LOAD, 9, 0, 1, 2)
    /\ instructions[19] = Instr(PIM_LOAD, 15, 0, 1, 2)

(* C6: generatePIMInstructions on a module with exactly one defined        *)
(* function returns 67 instructions: 3 CONFIG, 4 LOAD for A, 4 for B,      *)
(* 4 for C, 8 groups of 6 compute instructions, 4 STORE, in that order.    *)
DefinedFunctions(mod) == {f \in 1..Len(mod) : ~mod[f].isDeclaration}
C6_ComputeOpcodes ==
    <<PIM_MOVE, PIM_MOVE, PIM_MUL, PIM_MOVE, PIM_ADD, PIM_MOVE>>
C6_SingleFunctionStream ==
    (/\ entry = "generate"
     /\ pc = "done"
     /\ Cardinality(DefinedFunctions(module)) = 1) =>
        /\ Len(instructions) = 67
        /\ \A p \in 1..3 : instructions[p].opcode = PIM_CONFIG
        /\ \A p \in 4..15 :
             instructions[p] =
                 Instr(PIM_LOAD, p - 4, 0, ((p - 4) % 4) \div 2, (p - 4) % 2)
        /\ \A g \in 0..7 : \A q \in 1..6 :
             instructions[15 + 6 * g + q].opcode = C6_ComputeOpcodes[q]
        /\ \A a \in 0..1 : \A b \in 0..1 : \A m \in 0..1 :
             LET g == 4 * a + 2 * b + m
             IN  /\ instructions[15 + 6 * g + 1].src1 = 2 * a + m
                 /\ instructions[15 + 6 * g + 2].src1 = 4 + 2 * m + b
                 /\ instructions[15 + 6 * g + 4].src1 = 8 + 2 * a + b
                 /\ instructions[15 + 6 * g + 6].dest = 8 + 2 * a + b
        /\ \A p \in 64..67 :
             instructions[p] =
                 Instr(PIM_STORE, 0, 8 + (p - 64), (p - 64) \div 2,
                       (p - 64) % 2)

C6_Witness ==
    /\ entry = "generate"
    /\ pc = "done"
    /\ Len(module) = 2
    /\ module[1].isDeclaration
    /\ ~module[2].isDeclaration
    /\ Len(instructions) = 67
    /\ instructions[67] = Instr(PIM_STORE, 0, 11, 1, 1)

(* Bit b of a natural number, and the two 16-bit halves of a uint32_t.     *)
BitOf(n, b) == (n \div 2^b) % 2
RECURSIVE HalfValue(_, _, _)
HalfValue(w, low, b) ==
    IF b < 0 THEN 0 ELSE w[low + b] * 2^b + HalfValue(w, low, b - 1)
Hi16(w) == HalfValue(w, 16, 15)
Lo16(w) == HalfValue(w, 0, 15)
WordComputed == epc \in {"encode", "decode", "other", "otherBinary", "done"}
EncodedComputed == epc \in {"decode", "other", "otherBinary", "done"}
DecodedComputed == epc \in {"other", "otherBinary", "done"}

(* C7: toBinary() is the word (opcode mod 64)*2^26 + (dest mod 256)*2^18 + *)
(* (src1 mod 256)*2^10 + (src2 mod 256)*2^2 + (imm mod 4): opcode in bits  *)
(* 31..26, dest in 25..18, src1 in 17..10, src2 in 9..2, imm in 1..0; and  *)
(* PIMInstructionFormat::encode returns the same word.  The value is       *)
(* stated for the upper and the lower 16 bits of the word.                 *)
C7_LayoutBit(b) ==
    IF b >= 26 THEN BitOf(args.opcode % 64, b - 26)
    ELSE IF b >= 18 THEN BitOf(args.dest % 256, b - 18)
    ELSE IF b >= 10 THEN BitOf(args.src1 % 256, b - 10)
    ELSE IF b >= 2 THEN BitOf(args.src2 % 256, b - 2)
    ELSE BitOf(args.imm % 4, b)
C7_EncodingLayout ==
    /\ WordComputed =>
         /\ \A b \in 0..31 : word[b] = C7_LayoutBit(b)
         /\ Hi16(word) = (args.opcode % 64) * 2^10 + (args.dest % 256) * 2^2
                           + ((args.src1 % 256) \div 2^6)
         /\ Lo16(word) = ((args.src1 % 256) % 2^6) * 2^10
                           + (args.src2 % 256) * 2^2 + (args.imm % 4)
    /\ EncodedComputed => encoded = word

C7_Witness ==
    /\ EncodedComputed
    /\ args.opcode = 63 /\ args.dest = 170 /\ args.src1 = 255
    /\ args.src2 = 256 /\ args.imm = 5
    /\ Hi16(word) = 65195
    /\ Lo16(word) = 64513
    /\ encoded = word

(* C8: for opcode in 0..63, dest, src1 and src2 in 0..255 and imm in 0..3, *)
(* the five decoders applied to the encoded word return the opcode, dest,  *)
(* src1, src2 and imm that were encoded.                                   *)
C8_InRange ==
    /\ args.opcode \in 0..63
    /\ args.dest \in 0..255
    /\ args.src1 \in 0..255
    /\ args.src2 \in 0..255
    /\ args.imm \in 0..3
C8_RoundTrip ==
    (DecodedComputed /\ C8_InRange) =>
        /\ decoded.opcode = args.opcode
        /\ decoded.dest = args.dest
        /\ decoded.src1 = args.src1
        /\ decoded.src2 = args.src2
        /\ decoded.imm = args.imm

C8_Witness ==
    /\ DecodedComputed
    /\ C8_InRange
    /\ args = [opcode |-> 42, dest |-> 170, src1 |-> 255, src2 |-> 170,
               imm |-> 3]
    /\ decoded = args

(* C9: the getters of a constructed instruction return the values passed   *)
(* in, and two instructions that agree in the low 6 bits of the opcode,    *)
(* the low 8 bits of dest, src1 and src2 and the low 2 bits of imm have    *)
(* the same toBinary() word.                                               *)
C9_DifferAboveWidthOnly(x, y) ==
    /\ x.opcode % 64 = y.opcode % 64
    /\ x.dest % 256 = y.dest % 256
    /\ x.src1 % 256 = y.src1 % 256
    /\ x.src2 % 256 = y.src2 % 256
    /\ x.imm % 4 = y.imm % 4
C9_NoTruncationUntilEncoding ==
    /\ epc \notin {"idle", "construct"} =>
         /\ getOpcode(inst) = args.opcode
         /\ getDest(inst) = args.dest
         /\ getSrc1(inst) = args.src1
         /\ getSrc2(inst) = args.src2
         /\ getImm(inst) = args.imm
    /\ (epc = "done" /\ C9_DifferAboveWidthOnly(inst, other)) =>
         otherWord = word

C9_Witness ==
    /\ epc = "done"
    /\ inst.dest = 170
    /\ other.dest = (2^30 - 86) + 2^30
    /\ inst.opcode = 63 /\ inst.src1 = 255 /\ inst.src2 = 0 /\ inst.imm = 1
    /\ C9_DifferAboveWidthOnly(inst, other)
    /\ inst # other
    /\ otherWord = word

(* C10: every instruction the three phases emit has dest, src1 and src2    *)
(* in 0..255 and imm in 0..3.                                              *)
C10_FieldsFitEncoding ==
    entry = "phases" =>
        \A p \in 1..Len(instructions) :
            /\ instructions[p].dest \in 0..255
            /\ instructions[p].src1 \in 0..255
            /\ instructions[p].src2 \in 0..255
            /\ instructions[p].imm \in 0..3

(* The input of a recorded run: the entry point, and the dimensions or the *)
(* module it was given.                                                    *)
SameInput(r, q) ==
    /\ r.entry = q.entry
    /\ r.module = q.module
    /\ r.rows = q.rows /\ r.cols = q.cols /\ r.common = q.common

(* C11: two runs of the lowering on the same input return the same stream  *)
(* and write the same text lines, whatever the Logger's verbosity, history *)
(* and log file were at each run and whatever run came before them.        *)
C11_Determinism ==
    /\ \A a \in 1..Len(runs) : \A b \in 1..Len(runs) :
         SameInput(runs[a], runs[b]) =>
             /\ runs[a].stream = runs[b].stream
             /\ runs[a].text = runs[b].text
    /\ (stage = "second" /\ pc = "written") =>
             /\ instructions = runs[2].stream
             /\ output = runs[2].text

C11_Witness ==
    /\ stage = "second" /\ pc = "written"
    /\ entry = "generate"
    /\ ~SameInput(runs[1], runs[2])
    /\ runs[2].verbose # verbose
    /\ runs[2].fileOpen # fileOpen
    /\ Len(history) > Len(console) /\ Len(console) > Len(logFile)
    /\ Len(output) = 67
    /\ output[4] = << "L", "O", "A", "D", " ", "0", ",", " ", "0", " ", ";",
                      " ", "0", "x", "0", "4", "0", "0", "0", "0", "0", "0" >>

(* The text toString has returned, split at its last thirteen characters.  *)
Printed == epc = "printed"
TextBody == SubSeq(text, 1, Len(text) - 13)
TextMark == SubSeq(text, Len(text) - 12, Len(text) - 8)
TextHex == SubSeq(text, Len(text) - 7, Len(text))
LowercaseHexDigits ==
    { "0", "1", "2", "3", "4", "5", "6", "7", "8", "9",
      "a", "b", "c", "d", "e", "f" }
HexDigitValue(c) == CHOOSE d \in 0..15 : Digits[d + 1] = c
HexValue4(t) ==
    4096 * HexDigitValue(t[1]) + 256 * HexDigitValue(t[2])
        + 16 * HexDigitValue(t[3]) + HexDigitValue(t[4])
EndsWithHexSuffix ==
    /\ Len(text) >= 13
    /\ TextMark = << " ", ";", " ", "0", "x" >>
    /\ \A p \in 1..8 : TextHex[p] \in LowercaseHexDigits

(* C18: the text toString returns ends with " ; 0x" and exactly eight      *)
(* lowercase hexadecimal digits, zero-padded, whose value is toBinary() of *)
(* the instruction (stated for the upper and the lower 16 bits).           *)
C18_HexSuffix ==
    Printed =>
        /\ EndsWithHexSuffix
        /\ HexValue4(SubSeq(TextHex, 1, 4)) = Hi16(word)
        /\ HexValue4(SubSeq(TextHex, 5, 8)) = Lo16(word)

C18_Witness ==
    /\ Printed
    /\ inst = Instr(PIM_NOP, 7, 0, 0, 0)
    /\ text = << "N", "O", "P", " ", ";", " ", "0", "x",
                 "0", "0", "1", "c", "0", "0", "0", "0" >>

(* C19: for an opcode value outside 0..17 toString can be called and       *)
(* returns "UNKNOWN", the operands dest, src1 and src2 (and imm when it is *)
(* not zero), and the eight-digit hexadecimal suffix.                      *)
C19_UnknownOpcode ==
    /\ (epc = "encode" /\ inst.opcode \notin PIM_NOP..PIM_CONFIG) =>
           ENABLED Disassemble
    /\ (Printed /\ inst.opcode \notin PIM_NOP..PIM_CONFIG) =>
           /\ EndsWithHexSuffix
           /\ TextBody =
                  << "U", "N", "K", "N", "O", "W", "N", " " >>
                  \o Decimal(inst.dest) \o << ",", " " >>
                  \o Decimal(inst.src1) \o << ",", " " >>
                  \o Decimal(inst.src2)
                  \o (IF inst.imm # 0
                        THEN << ",", " " >> \o Decimal(inst.imm) ELSE << >>)

C19_Witness ==
    /\ Printed
    /\ inst = Instr(18, 0, 0, 3, 1)
    /\ text = << "U", "N", "K", "N", "O", "W", "N", " ", "0", ",", " ",
                 "0", ",", " ", "3", ",", " ", "1", " ", ";", " ", "0", "x",
                 "4", "8", "0", "0", "0", "0", "0", "d" >>

(* C20: for LOAD and STORE the text is the mnemonic, "dest, src1" and,     *)
(* exactly when src2 or imm is not zero, " [src2, imm]"; when both are     *)
(* zero the text holds no bracket.                                         *)
C20_LoadStoreOperands ==
    (Printed /\ inst.opcode \in {PIM_LOAD, PIM_STORE}) =>
        LET name == IF inst.opcode = PIM_LOAD
                      THEN << "L", "O", "A", "D" >>
                      ELSE << "S", "T", "O", "R", "E" >>
            plain == name \o << " " >> \o Decimal(inst.dest)
                          \o << ",", " " >> \o Decimal(inst.src1)
        IN  IF inst.src2 # 0 \/ inst.imm # 0
              THEN TextBody = plain \o << " ", "[" >> \o Decimal(inst.src2)
                                    \o << ",", " " >> \o Decimal(inst.imm)
                                    \o << "]" >>
              ELSE /\ TextBody = plain
                   /\ \A p \in 1..Len(text) : text[p] \notin {"[", "]"}

C20_Witness ==
    /\ Printed
    /\ inst = Instr(PIM_STORE, 0, 255, 256, 0)
    /\ text = << "S", "T", "O", "R", "E", " ", "0", ",", " ", "2", "5", "5",
                 " ", "[", "2", "5", "6", ",", " ", "0", "]",
                 " ", ";", " ", "0", "x",
                 "0", "8", "0", "3", "f", "c", "0", "0" >>

(* The calls of transformMemoryAccess, and what the access of a call       *)
(* addresses now.                                                          *)
Calls == {calls[n] : n \in 1..Len(calls)}
CurrentInstruction(c) == InstructionById(prog[c.fn], c.id)
CurrentAddress(c) == AddressOf(prog[c.fn], CurrentInstruction(c))
Catalogued(a) == a.base.global /\ a.base.name \in {"A", "B", "C"}
ConstantPair(a) ==
    /\ Len(a.indices) = 2
    /\ a.indices[1].const
    /\ a.indices[2].const
DeclaredColumns(a) == matrixInfo[a.base.name][2]
RowMajor(a) ==
    << Const(0),
       Const(a.indices[1].value * DeclaredColumns(a) + a.indices[2].value) >>

Accesses(f) ==
    {x \in {Flatten(f.blocks)[p] : p \in 1..Len(Flatten(f.blocks))} :
        x.kind \in {"load", "store"}}
Called(n, id, p) ==
    \E c \in Calls : c.fn = n /\ c.id = id /\ c.pass = p
NotTranslatable(a) ==
    \/ ~(a.base.global /\ a.base.name \in {"A", "B", "C"})
    \/ Len(a.indices) # 2
    \/ \E p \in 1..Len(a.indices) : ~a.indices[p].const

(* C13: when the base of an access is not a named catalogued matrix, the   *)
(* access has not exactly two indices, or an index is not a constant,      *)
(* transformMemoryAccess returns false and leaves the whole function as it *)
(* was (same pointer operand, no instruction inserted); and the pass goes  *)
(* on: when it has ended, every load and store of every defined function   *)
(* has been called.                                                        *)
C13_SkippedAccessUnchanged ==
    /\ \A c \in Calls :
         NotTranslatable(c.before) =>
             /\ ~c.returned
             /\ c.after = c.body
             /\ CurrentInstruction(c).ptr = c.operand
    /\ mpc = "mapped" =>
         \A n \in 1..Len(prog) : \A x \in Accesses(prog[n]) :
             \A p \in 1..pass : Called(n, x.id, p)

C13_Witness ==
    /\ mpc = "mapped" /\ pass = 1
    /\ Len(calls) = 2
    /\ calls[1].before = Address("gep", Global("B"), << Const(1), NonConst >>)
    /\ ~calls[1].returned
    /\ calls[1].after = calls[1].body
    /\ calls[2].before = Address("gep", Global("A"), << Const(0), Const(1) >>)
    /\ calls[2].returned

(* C14: the module after two runs of the pass is the module after one run: *)
(* every load and store addresses the same base with the same index list,  *)
(* and no instruction has been added or changed.                           *)
C14_Idempotent ==
    pass = 2 =>
        /\ prog = once
        /\ \A n \in 1..Len(prog) : \A x \in Accesses(prog[n]) :
             LET now == AddressOf(prog[n], x)
                 first == AddressOf(once[n], InstructionById(once[n], x.id))
             IN  now.base = first.base /\ now.indices = first.indices

C14_Witness ==
    /\ mpc = "mapped" /\ pass = 2
    /\ once # <<>>
    /\ \E c \in Calls :
         /\ c.pass = 1 /\ c.returned
         /\ c.before = Address("gep", Global("C"), << Const(1), Const(0) >>)
         /\ CurrentAddress(c).indices = << Const(0), Const(2) >>
    /\ \E c \in Calls : c.pass = 2

(* The access of call c was rewritten by the first run of the pass.        *)
TranslatedBefore(c) ==
    \E d \in Calls : d.pass = 1 /\ d.fn = c.fn /\ d.id = c.id /\ d.returned

RECURSIVE AccessIdsIn(_)
AccessIdsIn(block) ==
    IF block = <<>> THEN <<>>
    ELSE (IF Head(block).kind \in {"load", "store"}
            THEN << Head(block).id >> ELSE <<>>)
         \o AccessIdsIn(Tail(block))
RECURSIVE SourceOrder(_)
SourceOrder(blocks) ==
    IF blocks = <<>> THEN <<>>
    ELSE AccessIdsIn(Head(blocks)) \o SourceOrder(Tail(blocks))
CallIds(p, n) ==
    LET ofRun(c) == c.pass = p /\ c.fn = n
        made == SelectSeq(calls, ofRun)
    IN  [q \in 1..Len(made) |-> made[q].id]
FunctionFinished(p, n) ==
    p < pass \/ (p = pass /\ (mpc \in {"mapped", "start"} \/ mfn > n))

(* C16: in each run of the pass the calls of transformMemoryAccess on a    *)
(* function are made on its loads and stores, in block order and then      *)
(* instruction order, once each, and on no other instruction; when the     *)
(* function is finished every load and store has been called.              *)
C16_CallsInSourceOrder ==
    /\ \A c \in Calls : c.kind \in {"load", "store"}
    /\ \A p \in 1..pass : \A n \in 1..Len(prog) :
         /\ IsPrefix(CallIds(p, n), SourceOrder(prog[n].blocks))
         /\ FunctionFinished(p, n) =>
                CallIds(p, n) = SourceOrder(prog[n].blocks)

C16_Witness ==
    /\ mpc = "mapped" /\ pass = 1
    /\ Len(prog) = 2
    /\ Len(prog[2].blocks) = 2
    /\ Len(Flatten(prog[2].blocks)) = 4
    /\ CallIds(1, 2) = << 2, 4 >>
    /\ calls[1].kind = "store" /\ calls[1].returned
    /\ calls[2].kind = "load" /\ ~calls[2].returned

(* The lines the pass logs whatever it rewrites, and the counts of a run   *)
(* of the pass over a function.                                            *)
ProgressLines ==
    { "Starting memory mapping transformation",
      "Detecting matrix dimensions",
      "Applying memory mapping to function: ",
      "Memory mapping transformation complete" }
Rewritten(p, n) ==
    Cardinality({q \in 1..Len(calls) :
        calls[q].pass = p /\ calls[q].fn = n /\ calls[q].returned})
Skipped(p, n) ==
    Cardinality({q \in 1..Len(calls) :
        calls[q].pass = p /\ calls[q].fn = n /\ ~calls[q].returned})

(* C17: when the pass has ended, for every defined function the Logger     *)
(* holds a line of the pass that reports the number of accesses rewritten  *)
(* (calls that returned true) and the number skipped (the other calls).    *)
C17_CountsReported ==
    mpc = "mapped" =>
        \A n \in 1..Len(prog) :
            ~prog[n].isDeclaration =>
                \E q \in 1..Len(history) :
                    /\ history[q][1] \notin ProgressLines
                    /\ \E a \in 2..Len(history[q]) :
                       \E b \in 2..Len(history[q]) :
                           /\ a # b
                           /\ history[q][a] = Rewritten(pass, n)
                           /\ history[q][b] = Skipped(pass, n)

(* The opcodes toString renders with three operands, and their names.      *)
ThreeOperandOpcodes ==
    { PIM_MOVE, PIM_ADD, PIM_SUB, PIM_MUL, PIM_DIV, PIM_AND, PIM_OR, PIM_XOR,
      PIM_SHL, PIM_SHR }
OpcodeName ==
    [ o \in PIM_NOP..PIM_CONFIG |->
        << << "N", "O", "P" >>, << "L", "O", "A", "D" >>,
           << "S", "T", "O", "R", "E" >>, << "M", "O", "V", "E" >>,
           << "A", "D", "D" >>, << "S", "U", "B" >>, << "M", "U", "L" >>,
           << "D", "I", "V" >>, << "A", "N", "D" >>, << "O", "R" >>,
           << "X", "O", "R" >>, << "N", "O", "T" >>, << "S", "H", "L" >>,
           << "S", "H", "R" >>, << "J", "U", "M", "P" >>,
           << "J", "U", "M", "P", "Z" >>,
           << "J", "U", "M", "P", "N", "Z" >>,
           << "C", "O", "N", "F", "I", "G" >> >>[o + 1] ]
Commas(t) == Cardinality({ p \in 1..Len(t) : t[p] = "," })

(* C21: for ADD, SUB, MUL, DIV, AND, OR, XOR, SHL, SHR and MOVE the text   *)
(* is the mnemonic and "dest, src1, src2", followed by ", imm" exactly     *)
(* when imm is not zero (three separators then, two otherwise).            *)
C21_ThreeOperands ==
    (Printed /\ inst.opcode \in ThreeOperandOpcodes) =>
        LET three == OpcodeName[inst.opcode] \o << " " >>
                         \o Decimal(inst.dest) \o << ",", " " >>
                         \o Decimal(inst.src1) \o << ",", " " >>
                         \o Decimal(inst.src2)
        IN  /\ inst.imm # 0 =>
                TextBody = three \o << ",", " " >> \o Decimal(inst.imm)
            /\ inst.imm = 0 => TextBody = three
            /\ Commas(TextBody) = 3 <=> inst.imm # 0
            /\ Commas(TextBody) = 2 <=> inst.imm = 0

C21_Witness ==
    /\ Printed
    /\ inst = Instr(PIM_SHR, 170, 1000, 256, 0)
    /\ text = << "S", "H", "R", " ", "1", "7", "0", ",", " ",
                 "1", "0", "0", "0", ",", " ", "2", "5", "6",
                 " ", ";", " ", "0", "x",
                 "3", "6", "a", "b", "a", "0", "0", "0" >>

(* C22: the operands in the text are none for NOP, dest alone for NOT and  *)
(* JUMP, and "dest, src1" for CONFIG, JUMPZ and JUMPNZ, whatever the       *)
(* values of the fields that are not written.                              *)
C22_ShortOperands ==
    /\ (Printed /\ inst.opcode = PIM_NOP) =>
           TextBody = OpcodeName[inst.opcode]
    /\ (Printed /\ inst.opcode \in {PIM_NOT, PIM_JUMP}) =>
           TextBody = OpcodeName[inst.opcode] \o << " " >>
                          \o Decimal(inst.dest)
    /\ (Printed /\ inst.opcode \in {PIM_CONFIG, PIM_JUMPZ, PIM_JUMPNZ}) =>
           TextBody = OpcodeName[inst.opcode] \o << " " >>
                          \o Decimal(inst.dest) \o << ",", " " >>
                          \o Decimal(inst.src1)

C22_Witness ==
    /\ Printed
    /\ inst = Instr(PIM_JUMP, 7, 255, 3, 4)
    /\ text = << "J", "U", "M", "P", " ", "7",
                 " ", ";", " ", "0", "x",
                 "3", "8", "1", "f", "f", "c", "0", "c" >>

(* The load phase of a stream that starts with it.                         *)
LoadCount == SizeA + SizeB + SizeC
LoadPhaseOver == pc \in {"multiply", "multiplyLoop", "store", "storeLoop", "done"}
LoadDests(from, to) == { instructions[p].dest : p \in from..to }

(* C26: the dest addresses of the LOADs, in emission order, are 0, 1, ..., *)
(* N-1 with N = rows*common + common*cols + rows*cols; every address is    *)
(* loaded exactly once, and the addresses of A, of B and of C are three    *)
(* contiguous ranges, pairwise disjoint.                                   *)
C26_LoadAddresses ==
    entry = "phases" =>
        /\ \A p \in 1..LoadCount :
             Emitted(3 + p) =>
                 /\ instructions[3 + p].opcode = PIM_LOAD
                 /\ instructions[3 + p].dest = p - 1
        /\ LoadPhaseOver =>
             /\ { p \in 1..Len(instructions) :
                    instructions[p].opcode = PIM_LOAD } = 4..LoadEnd
             /\ \A a \in 0..(LoadCount - 1) :
                  Cardinality({ p \in 4..LoadEnd :
                                  instructions[p].dest = a }) = 1
             /\ LoadDests(4, 3 + SizeA) = 0..(SizeA - 1)
             /\ LoadDests(4 + SizeA, 3 + SizeA + SizeB) =
                    SizeA..(SizeA + SizeB - 1)
             /\ LoadDests(4 + SizeA + SizeB, LoadEnd) =
                    (SizeA + SizeB)..(LoadCount - 1)
             /\ LoadDests(4, 3 + SizeA)
                    \cap LoadDests(4 + SizeA, 3 + SizeA + SizeB) = {}
             /\ LoadDests(4, 3 + SizeA)
                    \cap LoadDests(4 + SizeA + SizeB, LoadEnd) = {}
             /\ LoadDests(4 + SizeA, 3 + SizeA + SizeB)
                    \cap LoadDests(4 + SizeA + SizeB, LoadEnd) = {}

C26_Witness ==
    /\ entry = "phases"
    /\ pc = "multiply"
    /\ rows = 3 /\ cols = 2 /\ common = 1
    /\ Len(instructions) = 14
    /\ instructions[7] = Instr(PIM_LOAD, 3, 0, 0, 0)
    /\ instructions[14] = Instr(PIM_LOAD, 10, 0, 2, 1)

(* The compute phase of a stream that starts with the load phase: the      *)
(* place of position p in its group of six, and the LOADs before p.        *)
InCompute(p) == LoadEnd < p /\ p <= ComputeEnd /\ Emitted(p)
PlaceInGroup(p) == (p - LoadEnd - 1) % 6
LoadedBefore(a, p) ==
    \E q \in 1..(p - 1) :
        instructions[q].opcode = PIM_LOAD /\ instructions[q].dest = a
RangeA == 0..(SizeA - 1)
RangeB == SizeA..(SizeA + SizeB - 1)
RangeC == (SizeA + SizeB)..(SizeA + SizeB + SizeC - 1)

(* C27: every address a MOVE of the compute phase reads (A[i][k], B[k][j], *)
(* C[i][j]) or writes (C[i][j]) is the dest of a LOAD earlier in the       *)
(* stream and lies in the address range of its matrix.                     *)
C27_LoadBeforeUse ==
    entry = "phases" =>
        \A p \in 1..Len(instructions) :
            InCompute(p) =>
                /\ PlaceInGroup(p) \in {0, 1, 3, 5} =>
                       instructions[p].opcode = PIM_MOVE
                /\ PlaceInGroup(p) = 0 =>
                       /\ instructions[p].src1 \in RangeA
                       /\ LoadedBefore(instructions[p].src1, p)
                /\ PlaceInGroup(p) = 1 =>
                       /\ instructions[p].src1 \in RangeB
                       /\ LoadedBefore(instructions[p].src1, p)
                /\ PlaceInGroup(p) = 3 =>
                       /\ instructions[p].src1 \in RangeC
                       /\ LoadedBefore(instructions[p].src1, p)
                /\ PlaceInGroup(p) = 5 =>
                       /\ instructions[p].dest \in RangeC
                       /\ LoadedBefore(instructions[p].dest, p)

C27_Witness ==
    /\ PhasesDone
    /\ rows = 2 /\ cols = 3 /\ common = 1
    /\ instructions[LoadEnd + 31] = Instr(PIM_MOVE, 0, 1, 0, 0)
    /\ instructions[LoadEnd + 32] = Instr(PIM_MOVE, 1, 4, 0, 0)
    /\ instructions[LoadEnd + 36] = Instr(PIM_MOVE, 10, 3, 0, 0)
    /\ instructions[7] = Instr(PIM_LOAD, 3, 0, 0, 1)

(* C28: in every group of the compute phase the MOVE that reads C[i][j]    *)
(* into register 3 and the MOVE that writes register 3 back to C[i][j] are *)
(* different instruction values and encode to different 32-bit words.      *)
C28_TransferDirection ==
    entry = "phases" =>
        \A p \in 1..Len(instructions) :
            (InCompute(p) /\ PlaceInGroup(p) = 5) =>
                /\ instructions[p - 2] # instructions[p]
                /\ toBinary(instructions[p - 2]) # toBinary(instructions[p])

(* The schedule of one 2x2x2 multiplication, position by position.         *)
Schedule2x2x2 ==
    [ p \in 1..67 |->
        IF p <= 3 THEN Instr(PIM_CONFIG, p - 1, 4, 0, 0)
        ELSE IF p <= 15
          THEN Instr(PIM_LOAD, p - 4, 0, ((p - 4) % 4) \div 2, (p - 4) % 2)
        ELSE IF p <= 63
          THEN LET g == (p - 16) \div 6
                   a == g \div 4
                   b == (g \div 2) % 2
                   m == g % 2
               IN  << Instr(PIM_MOVE, 0, 2 * a + m, 0, 0),
                      Instr(PIM_MOVE, 1, 4 + 2 * m + b, 0, 0),
                      Instr(PIM_MUL, 2, 0, 1, 0),
                      Instr(PIM_MOVE, 3, 8 + 2 * a + b, 0, 0),
                      Instr(PIM_ADD, 3, 3, 2, 0),
                      Instr(PIM_MOVE, 8 + 2 * a + b, 3, 0, 0) >>[
                          ((p - 16) % 6) + 1]
        ELSE Instr(PIM_STORE, 0, 8 + (p - 64), (p - 64) \div 2,
                   (p - 64) % 2) ]
Copies(n) == [ p \in 1..(67 * n) |-> Schedule2x2x2[((p - 1) % 67) + 1] ]
DefinedBefore(f) == { g \in DefinedFunctions(module) : g < f }
IsProcessingLine(h) == h[1] = "Processing function: "
IsDefinition(f) == ~f.isDeclaration
ProcessedNames ==
    LET lines == SelectSeq(history, IsProcessingLine)
    IN  [ p \in 1..Len(lines) |-> lines[p][2] ]
DefinedNames ==
    LET defs == SelectSeq(module, IsDefinition)
    IN  [ p \in 1..Len(defs) |-> defs[p].name ]

(* C30: generatePIMInstructions on a module with n defined functions and   *)
(* any number of declarations returns n copies of the 2x2x2 schedule, one  *)
(* after the other (67*n instructions), one for each defined function in   *)
(* module order, whatever the functions are called; a declaration adds     *)
(* nothing.                                                                *)
C30_CopiesOfSchedule ==
    entry = "generate" =>
        /\ pc = "done" =>
               /\ instructions = Copies(Cardinality(DefinedFunctions(module)))
               /\ Len(instructions) =
                      67 * Cardinality(DefinedFunctions(module))
               /\ ProcessedNames = DefinedNames
        /\ pc = "functions" =>
               instructions = Copies(Cardinality(DefinedBefore(fn)))

C30_Witness ==
    /\ entry = "generate"
    /\ pc = "done"
    /\ module = << [name |-> "main", isDeclaration |-> FALSE],
                   [name |-> "matmul", isDeclaration |-> FALSE] >>
    /\ Len(instructions) = 134
    /\ instructions[67] = Instr(PIM_STORE, 0, 11, 1, 1)
    /\ instructions[68] = Instr(PIM_CONFIG, 0, 4, 0, 0)
    /\ instructions[134] = Instr(PIM_STORE, 0, 11, 1, 1)

(* Both instructions have been encoded and printed; an instruction whose   *)
(* fields all fit the widths of the encoding.                              *)
PrintedBoth == epc = "printedBoth"
FitsEncoding(x) ==
    /\ x.opcode < 64
    /\ x.dest < 256 /\ x.src1 < 256 /\ x.src2 < 256
    /\ x.imm < 4
Suffix(t) == SubSeq(t, Len(t) - 12, Len(t))

CompleteLength ==
    IF entry = "phases"
      THEN 3 + SizeA + SizeB + SizeC + 6 * rows * cols * common + rows * cols
      ELSE 67 * Cardinality(DefinedFunctions(module))
Returned == pc = "done" /\ Len(instructions) = CompleteLength

(* C23: for all positive dimensions the lowering never fails and           *)
(* terminates: while it has not returned it can take its next step, each   *)
(* of the three phases, once entered, is left, and the call eventually     *)
(* returns the complete stream.                                            *)
C23_LoweringTerminates ==
    /\ [](pc # "done" => ENABLED Next)
    /\ (pc = "load") ~> (pc = "multiply")
    /\ (pc = "multiply") ~> (pc = "store")
    /\ (pc = "store") ~> (pc \in {"functions", "done"})
    /\ <>Returned

C23_Witness ==
    /\ entry = "phases"
    /\ rows = MaxRows /\ cols = MaxCols /\ common = MaxCommon
    /\ Returned
    /\ instructions[Len(instructions)] =
           Instr(PIM_STORE, 0, rows * cols + cols * cols + rows * cols - 1,
                 rows - 1, cols - 1)

(* The stream a call of generatePIMInstructions returns when it runs       *)
(* alone.                                                                  *)
AloneStream(mod) == Copies(Cardinality(DefinedFunctions(mod)))

(* C24: when two calls are lowered concurrently, every call returns, and   *)
(* returns exactly the stream it returns when run alone; the only state    *)
(* both write is the Logger.                                               *)
C24_ConcurrentCallsIsolated ==
    /\ \A t \in Threads : cstate[t] # "aborted"
    /\ \A t \in Threads :
         cstate[t] = "returned" => cstreams[t] = AloneStream(units[t])

(* main has tried to open the file and the file cannot be opened.          *)
Happened(e) == \E p \in 1..Len(events) : events[p] = e
InputOpenFailed ==
    Happened("open input") /\ options.inputFile \notin readable
OutputOpenFailed ==
    Happened("open output") /\ options.outputFile \notin writable
Exited == mainpc = "exited"

(* C25: when the input file cannot be opened, or the output file cannot be *)
(* opened for writing, main returns a non-zero status; a missing input     *)
(* file ends the run before anything is parsed, lowered or written.        *)
C25_FatalFileErrors ==
    /\ InputOpenFailed =>
           /\ Exited /\ exitStatus # 0
           /\ events = << "open input" >>
           /\ module = << >> /\ instructions = << >> /\ output = << >>
    /\ OutputOpenFailed =>
           /\ Exited /\ exitStatus # 0
           /\ ~Happened("write") /\ output = << >>

C25_Witness ==
    /\ argv = << "in.c", "-o", "out.pim" >>
    /\ readable = {"in.c"}
    /\ writable = {"a.out"}
    /\ OutputOpenFailed
    /\ Exited /\ exitStatus = 1
    /\ events = << "open input", "parse", "generate IR", "map", "lower",
                   "open output" >>
    /\ Len(instructions) = 67

====
